---- MODULE Spec2Model ----
(***************************************************************************)
(* A model of the RCH archive handler (src/ercha/rch.py) and of its        *)
(* dictionary codec (src/ercha/lzw.py).                                    *)
(*                                                                         *)
(* Files are sequences of bytes (0..255).  File names are sequences of     *)
(* character codes.  Every 32-bit field is kept as the 4 bytes that        *)
(* struct.pack('<I', v) writes, least significant byte first, so that no   *)
(* value leaves the range of the model checker's integers.                 *)
(***************************************************************************)
EXTENDS Integers, Sequences, FiniteSets, TLC

(***************************************************************************)
(* Bytes and 32-bit little-endian words                                    *)
(***************************************************************************)
Min(a, b) == IF a < b THEN a ELSE b

RECURSIVE BitXor(_, _)
\* Python's a ^ b on non-negative integers.
BitXor(a, b) ==
    IF a = 0 THEN b
    ELSE IF b = 0 THEN a
    ELSE (((a % 2) + (b % 2)) % 2) + 2 * BitXor(a \div 2, b \div 2)

\* w1 ^ w2 on two 32-bit words.
WordXor(w1, w2) ==
    <<BitXor(w1[1], w2[1]), BitXor(w1[2], w2[2]),
      BitXor(w1[3], w2[3]), BitXor(w1[4], w2[4])>>

\* w >> 1 on a 32-bit word.
WordShr1(w) ==
    <<(w[1] \div 2) + 128 * (w[2] % 2), (w[2] \div 2) + 128 * (w[3] % 2),
      (w[3] \div 2) + 128 * (w[4] % 2), w[4] \div 2>>

\* w >> 8 on a 32-bit word.
WordShr8(w) == <<w[2], w[3], w[4], 0>>

\* struct.pack('<I', n), for the n a model run produces (n < 2^31).
U32(n) == <<n % 256, (n \div 256) % 256, (n \div 65536) % 256, n \div 16777216>>

\* file.read(n) at offset pos (0-based) where n is a 32-bit word: the number
\* of bytes the read returns, which is never more than what is left.
ReadCount(w, left) ==
    IF w[4] # 0 \/ w[3] # 0 THEN left
    ELSE Min(w[1] + 256 * w[2], left)

\* bytes[a:b] of Python (0-based, end exclusive, clipped to the data).
Slice(s, a, b) == SubSeq(s, a + 1, Min(b, Len(s)))

(***************************************************************************)
(* zlib.crc32 (CRC-32, reflected polynomial 0xEDB88320)                    *)
(***************************************************************************)
CrcPoly == <<32, 131, 184, 237>>
WordOnes == <<255, 255, 255, 255>>

RECURSIVE CrcRounds(_, _)
CrcRounds(w, k) ==
    IF k = 0 THEN w
    ELSE CrcRounds(IF w[1] % 2 = 1 THEN WordXor(CrcPoly, WordShr1(w))
                   ELSE WordShr1(w), k - 1)

RECURSIVE CrcTableRange(_, _)
\* The table entries of the bytes lo..hi, in order.
CrcTableRange(lo, hi) ==
    IF lo = hi THEN <<CrcRounds(<<lo, 0, 0, 0>>, 8)>>
    ELSE CrcTableRange(lo, (lo + hi) \div 2)
         \o CrcTableRange(((lo + hi) \div 2) + 1, hi)

\* Entry n + 1 is the table entry of byte n.
CrcTable == CrcTableRange(0, 255)

\* One byte more: table[(crc ^ byte) & 0xFF] ^ (crc >> 8).
CrcStep(crc, byte) ==
    WordXor(CrcTable[BitXor(crc[1], byte) + 1], WordShr8(crc))

RECURSIVE CrcUpdate(_, _, _, _)
\* The register after bytes lo..hi of data, taken in order, from the
\* register crc before them.  The range is halved rather than walked, and
\* the register is looked at (its length) before the range is entered, so
\* that it is a value by then and not a computation still to be made: both
\* keep the evaluation shallow.
CrcUpdate(crc, data, lo, hi) ==
    IF Len(crc) # 4 \/ lo > hi THEN crc
    ELSE IF lo = hi THEN CrcStep(crc, data[lo])
    ELSE CrcUpdate(CrcUpdate(crc, data, lo, (lo + hi) \div 2),
                   data, ((lo + hi) \div 2) + 1, hi)

\* zlib.crc32(data) & 0xFFFFFFFF, as the 4 bytes of its '<I' packing.
Crc32(data) == WordXor(CrcUpdate(WordOnes, data, 1, Len(data)), WordOnes)

(***************************************************************************)
(* Results of operations that may raise: ok, or the exception class raised *)
(***************************************************************************)
Ok(v) == [ok |-> TRUE, err |-> "none", data |-> v]
Raise(e) == [ok |-> FALSE, err |-> e, data |-> <<>>]

\* isinstance(e, ValueError): UnicodeDecodeError is a subclass of ValueError;
\* struct.error, KeyError and OSError are not.
IsValueError(e) == e \in {"ValueError", "UnicodeDecodeError"}

(***************************************************************************)
(* RCH.xor255                                                              *)
(***************************************************************************)
\* xor255 that returns its argument.
xor255_unchanged(data) == data

\* RCH.xor255
xor255(data) == [i \in 1..Len(data) |-> BitXor(data[i], 255)]

(***************************************************************************)
(* The dictionary codec (src/ercha/lzw.py).  The table holds the 256       *)
(* single-byte seeds implicitly (code b is the string <<b>>) and the added *)
(* entries as a sequence: entry i has code 255 + i, next_code is           *)
(* 256 + Len(table).                                                       *)
(***************************************************************************)
reset_dictionary == <<>>
next_code(table) == 256 + Len(table)

\* the comparison of can_add_to_dictionary with the ceiling let in
BelowCeiling_inclusive(code) == code <= 65536

\* self.next_code < 65536
BelowCeiling(code) == code < 65536

can_add_to_dictionary(table) == BelowCeiling(next_code(table))

add_to_dictionary(table, key) ==
    IF can_add_to_dictionary(table) THEN Append(table, key) ELSE table

\* string_plus_symbol in self.dictionary
InDictionary(table, s) ==
    \/ Len(s) = 1
    \/ \E i \in 1..Len(table) : table[i] = s

\* self.dictionary[string]
DictionaryCode(table, s) ==
    IF Len(s) = 1 THEN s[1]
    ELSE 255 + (CHOOSE i \in 1..Len(table) : table[i] = s)

RECURSIVE EncodeLoop(_, _, _, _, _)
\* The for loop of LZWCompressor.encode from symbol i on; the state after it.
EncodeLoop(data, i, string, table, codes) ==
    IF i > Len(data) THEN [string |-> string, table |-> table, codes |-> codes]
    ELSE LET string_plus_symbol == Append(string, data[i])
         IN  IF InDictionary(table, string_plus_symbol)
             THEN EncodeLoop(data, i + 1, string_plus_symbol, table, codes)
             ELSE EncodeLoop(data, i + 1, <<data[i]>>,
                             add_to_dictionary(table, string_plus_symbol),
                             Append(codes, DictionaryCode(table, string)))

RECURSIVE to_bytes(_)
\* LZWCompressor._to_bytes: each code as 2 bytes, big-endian.
to_bytes(codes) ==
    IF codes = <<>> THEN <<>>
    ELSE <<Head(codes) \div 256, Head(codes) % 256>> \o to_bytes(Tail(codes))

\* The codes LZWCompressor.encode emits, before serialization.
lzw_codes(data) ==
    LET s == EncodeLoop(data, 1, <<>>, reset_dictionary, <<>>)
    IN  IF s.string # <<>>
        THEN Append(s.codes, DictionaryCode(s.table, s.string))
        ELSE s.codes

\* The codes of LZWCompressor.encode after its loop ended in state s.
EmittedCodes(s) ==
    IF s.string # <<>>
    THEN Append(s.codes, DictionaryCode(s.table, s.string))
    ELSE s.codes

\* c.encode(data) on a compressor c whose dictionary is table: encode
\* starts with string = b"" and the dictionary as the object holds it; the
\* bytes returned and the dictionary the object holds afterwards.
EncodeOn(table, data) ==
    [encoded |-> to_bytes(EmittedCodes(
                     EncodeLoop(data, 1, <<>>, table, <<>>))),
     table |-> EncodeLoop(data, 1, <<>>, table, <<>>).table]

\* LZWCompressor().encode(data)
lzw_encode(data) == to_bytes(lzw_codes(data))

\* LZWDecompressor._from_bytes: 2-byte big-endian codes; a trailing odd byte
\* is a code of its own (int.from_bytes of a 1-byte slice).
from_bytes(encoded) ==
    [k \in 1..((Len(encoded) + 1) \div 2) |->
        IF 2 * k <= Len(encoded)
        THEN 256 * encoded[2 * k - 1] + encoded[2 * k]
        ELSE encoded[2 * k - 1]]

\* code in self.reverse_dictionary
InReverse(table, code) == code < next_code(table)

\* self.reverse_dictionary[code]
ReverseEntry(table, code) ==
    IF code < 256 THEN <<code>> ELSE table[code - 255]

\* _get_entry without the branch of the code about to be assigned
get_entry_known_only(table, code, string) ==
    IF InReverse(table, code) THEN Ok(ReverseEntry(table, code))
    ELSE Raise("ValueError")

\* LZWDecompressor._get_entry
get_entry(table, code, string) ==
    IF InReverse(table, code) THEN Ok(ReverseEntry(table, code))
    ELSE IF code = next_code(table) THEN Ok(string \o Slice(string, 0, 1))
    ELSE Raise("ValueError")

RECURSIVE DecodeLoop(_, _, _, _, _)
\* The for loop of LZWDecompressor.decode from code i on.
DecodeLoop(codes, i, string, table, decoded) ==
    IF i > Len(codes) THEN Ok(decoded)
    ELSE LET entry == get_entry(table, codes[i], string)
         IN  IF ~entry.ok THEN entry
             ELSE DecodeLoop(codes, i + 1, entry.data,
                             add_to_dictionary(table,
                                 string \o Slice(entry.data, 0, 1)),
                             decoded \o entry.data)

\* LZWDecompressor().decode(encoded): the bytes, or the exception raised.
lzw_decode(encoded) ==
    LET codes == from_bytes(encoded)
    IN  IF codes = <<>> THEN Raise("ValueError")
        ELSE IF ~InReverse(reset_dictionary, codes[1]) THEN Raise("KeyError")
        ELSE DecodeLoop(codes, 2, ReverseEntry(reset_dictionary, codes[1]),
                        reset_dictionary,
                        ReverseEntry(reset_dictionary, codes[1]))

(***************************************************************************)
(* bz2 (the standard library's, not part of the repository).  A stream is  *)
(* modelled as the magic "BZh", the level digit, one length byte and the   *)
(* body: compress is injective and never the identity, decompress inverts  *)
(* it, accepts the empty input, raises OSError on data that does not start *)
(* a stream, ValueError on a stream cut short, and ignores what follows    *)
(* the end of the stream.                                                  *)
(***************************************************************************)
Bz2Compress(data, level) == <<66, 90, 104, 48 + level, Len(data)>> \o data

Bz2Decompress(s) ==
    IF s = <<>> THEN Ok(<<>>)
    ELSE IF \/ Len(s) < 4
            \/ Slice(s, 0, 3) # <<66, 90, 104>>
            \/ s[4] \notin 49..57
         THEN Raise("OSError")
    ELSE IF Len(s) < 5 \/ Len(s) < 5 + s[5] THEN Raise("ValueError")
    ELSE Ok(Slice(s, 5, 5 + s[5]))

(***************************************************************************)
(* src/ercha/config.py                                                     *)
(***************************************************************************)
RCH_MAGIC == <<70, 82, 48, 49>>
BLOCK_MAGIC == <<70, 90>>
ENCODING_XOR255_LZW == 0
ENCODING_XOR255 == 1
ENCODING_BZIP2 == 2

(***************************************************************************)
(* The encoding dispatcher                                                 *)
(***************************************************************************)
\* raise ValueError("Unknown encoding algorithm")
UnknownAlgorithm == "ValueError: Unknown encoding algorithm"

\* encode_file_data with the last branch an encoding: an id that is not one
\* of the three encodes as XOR255.
encode_file_data_any_id(file_data, encoding_algorithm, level) ==
    IF encoding_algorithm = ENCODING_BZIP2
        THEN Ok(Bz2Compress(file_data, level))
    ELSE IF encoding_algorithm = ENCODING_XOR255_LZW
        THEN Ok(lzw_encode(xor255(file_data)))
    ELSE Ok(xor255(file_data))

\* RCH.encode_file_data: the encoded bytes, or the exception raised.
encode_file_data(file_data, encoding_algorithm, level) ==
    IF encoding_algorithm = ENCODING_BZIP2
        THEN Ok(Bz2Compress(file_data, level))
    ELSE IF encoding_algorithm = ENCODING_XOR255_LZW
        THEN Ok(lzw_encode(xor255(file_data)))
    ELSE IF encoding_algorithm = ENCODING_XOR255
        THEN Ok(xor255(file_data))
    ELSE Raise(UnknownAlgorithm)

\* The except clauses of RCH.decode_data (lines 73-81): every failure leaves
\* as a ValueError.
AsValueError(r) == IF r.ok THEN r ELSE Raise("ValueError")

\* The LZW branch of RCH.decode_data (lines 64-65).
XorDecoded(d) == IF d.ok THEN Ok(xor255(d.data)) ELSE d

\* decode_data with the last branch a decoding: the payload of a block whose
\* id is not one of the three is returned as it is.
decode_data_any_id(file_data, encoding_algo) ==
    AsValueError(
        IF encoding_algo = U32(ENCODING_BZIP2)
            THEN Bz2Decompress(file_data)
        ELSE IF encoding_algo = U32(ENCODING_XOR255_LZW)
            THEN XorDecoded(lzw_decode(file_data))
        ELSE IF encoding_algo = U32(ENCODING_XOR255)
            THEN Ok(xor255(file_data))
        ELSE Ok(file_data))

\* RCH.decode_data with encoding_algo the 32-bit word read from the block.
decode_data(file_data, encoding_algo) ==
    AsValueError(
        IF encoding_algo = U32(ENCODING_BZIP2)
            THEN Bz2Decompress(file_data)
        ELSE IF encoding_algo = U32(ENCODING_XOR255_LZW)
            THEN XorDecoded(lzw_decode(file_data))
        ELSE IF encoding_algo = U32(ENCODING_XOR255)
            THEN Ok(xor255(file_data))
        ELSE Raise("ValueError"))

\* RCH.check_crc: True, or ValueError("CRC check failed").
check_crc(data, crc32_stored) ==
    IF Crc32(data) = crc32_stored THEN Ok(TRUE) ELSE Raise("ValueError")

\* RCH._calculate_crc32
calculate_crc32(file_data, encoded_data, encoding_algorithm) ==
    IF encoding_algorithm = ENCODING_BZIP2 THEN Crc32(file_data)
    ELSE Crc32(encoded_data)

(***************************************************************************)
(* Names: str.encode('utf-8'), bytes.decode('utf-8'), os.path (POSIX)      *)
(***************************************************************************)
\* One code point as UTF-8.
Utf8Char(c) ==
    IF c < 128 THEN <<c>>
    ELSE IF c < 2048 THEN <<192 + (c \div 64), 128 + (c % 64)>>
    ELSE IF c < 65536
        THEN <<224 + (c \div 4096), 128 + ((c \div 64) % 64), 128 + (c % 64)>>
    ELSE <<240 + (c \div 262144), 128 + ((c \div 4096) % 64),
           128 + ((c \div 64) % 64), 128 + (c % 64)>>

RECURSIVE Utf8Encode(_)
\* name.encode('utf-8')
Utf8Encode(str) ==
    IF Len(str) = 0 THEN <<>>
    ELSE IF Len(str) = 1 THEN Utf8Char(str[1])
    ELSE Utf8Encode(SubSeq(str, 1, Len(str) \div 2))
         \o Utf8Encode(SubSeq(str, (Len(str) \div 2) + 1, Len(str)))

IsCont(b, i) == i <= Len(b) /\ b[i] \in 128..191

\* The length of the well-formed UTF-8 sequence that starts at b[i], 0 if none.
Utf8Width(b, i) ==
    LET c == b[i]
    IN  IF c < 128 THEN 1
        ELSE IF c \in 194..223 /\ IsCont(b, i + 1) THEN 2
        ELSE IF /\ c \in 224..239
                /\ IsCont(b, i + 1) /\ IsCont(b, i + 2)
                /\ (c = 224 => b[i + 1] >= 160)
                /\ (c = 237 => b[i + 1] <= 159) THEN 3
        ELSE IF /\ c \in 240..244
                /\ IsCont(b, i + 1) /\ IsCont(b, i + 2) /\ IsCont(b, i + 3)
                /\ (c = 240 => b[i + 1] >= 144)
                /\ (c = 244 => b[i + 1] <= 143) THEN 4
        ELSE 0

Utf8Point(b, i, w) ==
    IF w = 1 THEN b[i]
    ELSE IF w = 2 THEN (b[i] - 192) * 64 + (b[i + 1] - 128)
    ELSE IF w = 3
        THEN (b[i] - 224) * 4096 + (b[i + 1] - 128) * 64 + (b[i + 2] - 128)
    ELSE (b[i] - 240) * 262144 + (b[i + 1] - 128) * 4096
         + (b[i + 2] - 128) * 64 + (b[i + 3] - 128)

\* b[i] starts a character: it is no continuation byte.
IsStart(b, i) == b[i] \notin 128..191

\* Every byte starts a well-formed sequence or continues the one that the
\* nearest start before it opens.
Utf8WellFormed(b) ==
    \A i \in 1..Len(b) :
        IF IsStart(b, i) THEN Utf8Width(b, i) > 0
        ELSE \E j \in 1..(i - 1) :
                 /\ i - j <= 3
                 /\ IsStart(b, j)
                 /\ j + Utf8Width(b, j) > i

RECURSIVE Utf8Points(_, _, _)
\* The code points of the characters that start in b[lo..hi], in order.
Utf8Points(b, lo, hi) ==
    IF lo > hi THEN <<>>
    ELSE IF lo = hi
    THEN IF IsStart(b, lo) THEN <<Utf8Point(b, lo, Utf8Width(b, lo))>>
         ELSE <<>>
    ELSE Utf8Points(b, lo, (lo + hi) \div 2)
         \o Utf8Points(b, ((lo + hi) \div 2) + 1, hi)

\* b.decode('utf-8'): the string, or UnicodeDecodeError.
Utf8Decode(b) ==
    IF Utf8WellFormed(b) THEN Ok(Utf8Points(b, 1, Len(b)))
    ELSE Raise("UnicodeDecodeError")

\* The index of the last c in s, 0 if there is none (s.rfind(c) + 1).
RFind(s, c) ==
    IF \E i \in 1..Len(s) : s[i] = c
    THEN CHOOSE i \in 1..Len(s) : s[i] = c /\ \A j \in (i + 1)..Len(s) : s[j] # c
    ELSE 0

\* os.path.basename
basename(p) == SubSeq(p, RFind(p, 47) + 1, Len(p))

\* os.path.splitext: <<root, ext>>; leading dots of the last component do not
\* start an extension.
splitext(p) ==
    LET sepIndex == RFind(p, 47)
        dotIndex == RFind(p, 46)
    IN  IF /\ dotIndex > sepIndex
           /\ \E k \in (sepIndex + 1)..(dotIndex - 1) : p[k] # 46
        THEN <<SubSeq(p, 1, dotIndex - 1), SubSeq(p, dotIndex, Len(p))>>
        ELSE <<p, <<>>>>

\* _sanitize_filename without the call of os.path.basename.
sanitize_filename_whole_path(filename) == filename

\* s[:e] of Python: a negative e counts from the end of s.
SliceTo(s, e) ==
    IF e >= 0 THEN SubSeq(s, 1, Min(e, Len(s)))
    ELSE IF Len(s) + e > 0 THEN SubSeq(s, 1, Len(s) + e)
    ELSE <<>>

\* RCH._sanitize_filename
sanitize_filename(filename) ==
    LET sanitized == basename(filename)
    IN  IF Len(sanitized) > 255
        THEN LET root == splitext(sanitized)[1]
                 ext  == splitext(sanitized)[2]
             IN  SliceTo(root, 255 - Len(ext)) \o ext
        ELSE sanitized

\* filename.ljust(40, b'\x00'): pads, never truncates.
ljust40(b) == IF Len(b) >= 40 THEN b ELSE b \o [i \in 1..(40 - Len(b)) |-> 0]

\* field.split(b'\x00', 1)[0]
UntilNul(b) ==
    IF \E i \in 1..Len(b) : b[i] = 0
    THEN SubSeq(b, 1, (CHOOSE i \in 1..Len(b) :
                           b[i] = 0 /\ \A j \in 1..(i - 1) : b[j] # 0) - 1)
    ELSE b

(***************************************************************************)
(* Container framing.  A read position is the 0-based offset into the file *)
(***************************************************************************)
\* RCH._write_rch_header
write_rch_header == RCH_MAGIC \o U32(1) \o U32(0) \o [i \in 1..16 |-> 0]

\* RCH.write_block_to_file: the bytes it appends to the file.
write_block_to_file(filename, encoded_data, crc32, encoding_algorithm) ==
    BLOCK_MAGIC \o ljust40(filename)
    \o U32(1) \o U32(0) \o U32(Len(encoded_data)) \o crc32
    \o U32(encoding_algorithm)
    \o encoded_data

\* raise ValueError("Invalid RCH file format")
InvalidFormat == "ValueError: Invalid RCH file format"

\* read_rch_header without the comparison of the magic.
read_rch_header_any_magic(f) == Ok(Min(28, Len(f)))

\* RCH.read_rch_header on a file read from offset 0: the offset after it, or
\* ValueError("Invalid RCH file format").
read_rch_header(f) ==
    IF Slice(f, 0, 4) # RCH_MAGIC THEN Raise(InvalidFormat)
    ELSE Ok(Min(28, Len(f)))

\* RCH.read_file_block_header at offset pos: the fields and the offset after
\* the header, or the exception raised.
read_file_block_header(f, pos) ==
    IF Slice(f, pos, pos + 2) # BLOCK_MAGIC THEN Raise("ValueError")
    ELSE LET name   == Utf8Decode(UntilNul(Slice(f, pos + 2, pos + 42)))
             header == Slice(f, pos + 42, pos + 62)
         IN  IF ~name.ok THEN name
             ELSE IF Len(header) # 20 THEN Raise("struct.error")
             ELSE Ok([filename      |-> name.data,
                      filesize      |-> SubSeq(header, 9, 12),
                      crc32_stored  |-> SubSeq(header, 13, 16),
                      encoding_algo |-> SubSeq(header, 17, 20),
                      timestamp     |-> SubSeq(header, 5, 8),
                      pos           |-> pos + 62])

\* rch_file.read(filesize) at offset pos: never fails, may return fewer bytes.
read_payload(f, pos, filesize) ==
    Slice(f, pos, pos + ReadCount(filesize, Len(f) - pos))

(***************************************************************************)
(* Result records                                                          *)
(***************************************************************************)
\* RCH.get_encoding_name on the numeric id (pack) ...
get_encoding_name(encoding_algo) ==
    IF encoding_algo = ENCODING_BZIP2 THEN "BZIP2"
    ELSE IF encoding_algo = ENCODING_XOR255_LZW THEN "XOR255+LZW"
    ELSE IF encoding_algo = ENCODING_XOR255 THEN "XOR255"
    ELSE "Unknown"

\* ... and on the 32-bit word read from a block header (unpack, check).
EncodingNameOfWord(w) ==
    IF w[2] = 0 /\ w[3] = 0 /\ w[4] = 0 THEN get_encoding_name(w[1])
    ELSE "Unknown"

\* RCH._create_result_entry
create_result_entry(filename, filesize, crc32_stored, encoding_algo, crc_valid, timestamp, status) ==
    [filename   |-> filename,
     size       |-> filesize,
     crc32      |-> crc32_stored,
     encoding   |-> EncodingNameOfWord(encoding_algo),
     crc_passed |-> crc_valid,
     timestamp  |-> timestamp,
     status     |-> status]

(***************************************************************************)
(* unpack                                                                  *)
(***************************************************************************)
\* Line 239 of RCH._process_file_data: the pair returned once check_crc has
\* returned, or its ValueError.
Processed(output_data, crc) ==
    IF ~crc.ok THEN crc
    ELSE Ok([output_data |-> output_data, crc_valid |-> crc.data])

\* Line 237 of RCH._process_file_data, given what decode_data returned.
CheckDecoded(output, file_data, encoding_algo, crc32_stored) ==
    IF ~output.ok THEN output
    ELSE Processed(output.data,
                   check_crc(IF encoding_algo = U32(ENCODING_BZIP2)
                             THEN output.data ELSE file_data,
                             crc32_stored))

\* RCH._process_file_data: [output_data, crc_valid], or ValueError from the
\* decoder or from check_crc.
process_file_data(file_data, encoding_algo, crc32_stored) ==
    CheckDecoded(decode_data(file_data, encoding_algo), file_data,
                 encoding_algo, crc32_stored)

\* open(os.path.join(output_directory, filename), 'wb') names a directory:
\* the destination itself for "" and ".", its parent for "..".
IsDirectoryName(filename) ==
    filename \in {<<>>, <<46>>, <<46, 46>>}

\* RCH._write_output into a directory (not '-'): the write log with the file
\* appended, or OSError (IsADirectoryError).
write_output(written, filename, output_data) ==
    IF IsDirectoryName(filename) THEN Raise("OSError")
    ELSE Ok(Append(written, [name |-> filename, data |-> output_data]))

\* The entry appended at line 222, for a block b that failed.
FailedEntry(b) ==
    create_result_entry(sanitize_filename(b.filename), b.filesize,
                        b.crc32_stored, b.encoding_algo, FALSE, b.timestamp,
                        "Failed")

\* The entry appended at line 218, for a block b that was written.
WrittenEntry(b, crc_valid, force) ==
    create_result_entry(sanitize_filename(b.filename), b.filesize,
                        b.crc32_stored, b.encoding_algo, crc_valid, b.timestamp,
                        IF crc_valid \/ force THEN "Unpacked" ELSE "Failed")

RECURSIVE UnpackLoop(_, _, _, _, _, _)
\* Lines 216-219, given what _write_output did (w): an OSError leaves the
\* call, otherwise the block is recorded and the loop goes on at offset next.
UnpackWritten(f, next, force, filenames, results, written, b, crc_valid, w) ==
    IF ~w.ok THEN [err |-> w.err, results |-> <<>>, written |-> written]
    ELSE UnpackLoop(f, next, force, filenames,
                    Append(results, WrittenEntry(b, crc_valid, force)), w.data)

\* Lines 209-223 with a break where line 223 has continue: a failed block
\* ends the scan.
UnpackProcessedBreak(f, next, force, filenames, results, written, b, p) ==
    IF ~p.ok \/ (~p.data.crc_valid /\ ~force)
    THEN [err |-> "none", results |-> Append(results, FailedEntry(b)),
          written |-> written]
    ELSE UnpackWritten(f, next, force, filenames, results, written, b,
                       p.data.crc_valid,
                       write_output(written, sanitize_filename(b.filename),
                                    p.data.output_data))

\* Lines 209-223, given what _process_file_data returned (p).
UnpackProcessed(f, next, force, filenames, results, written, b, p) ==
    IF ~p.ok
    THEN UnpackLoop(f, next, force, filenames,
                    Append(results, FailedEntry(b)), written)
    ELSE IF ~p.data.crc_valid /\ ~force
    THEN UnpackLoop(f, next, force, filenames,
                    Append(results, FailedEntry(b)), written)
    ELSE UnpackWritten(f, next, force, filenames, results, written, b,
                       p.data.crc_valid,
                       write_output(written, sanitize_filename(b.filename),
                                    p.data.output_data))

\* Lines 204-223, given the block header b and the payload read.
\* filenames = {} stands for None (and for the empty list): no filter.
UnpackBlock(f, force, filenames, results, written, b, file_data) ==
    IF ~(filenames = {} \/ b.filename \in filenames)
    THEN UnpackLoop(f, b.pos + Len(file_data), force, filenames, results,
                    written)
    ELSE UnpackProcessed(f, b.pos + Len(file_data), force, filenames, results,
                         written, b,
                         process_file_data(file_data, b.encoding_algo,
                                           b.crc32_stored))

\* Lines 201-227, given what read_file_block_header returned (h): a
\* ValueError ends the loop, any other exception leaves the call.
UnpackHeader(f, force, filenames, results, written, h) ==
    IF ~h.ok
    THEN [err     |-> IF IsValueError(h.err) THEN "none" ELSE h.err,
          results |-> IF IsValueError(h.err) THEN results ELSE <<>>,
          written |-> written]
    ELSE UnpackBlock(f, force, filenames, results, written, h.data,
                     read_payload(f, h.data.pos, h.data.filesize))

\* The while loop of RCH.unpack_rch with the file at offset pos.
UnpackLoop(f, pos, force, filenames, results, written) ==
    UnpackHeader(f, force, filenames, results, written,
                 read_file_block_header(f, pos))

\* Lines 197-199, given what read_rch_header returned (hd).
UnpackFrom(f, force, filenames, hd) ==
    IF ~hd.ok THEN [err |-> hd.err, results |-> <<>>, written |-> <<>>]
    ELSE UnpackLoop(f, hd.data, force, filenames, <<>>, <<>>)

\* RCH.unpack_rch on the bytes of the archive file.
unpack_rch(f, force, filenames) ==
    UnpackFrom(f, force, filenames, read_rch_header(f))

(***************************************************************************)
(* check                                                                   *)
(***************************************************************************)
\* Line 317 of RCH._verify_crc, given what decode_data returned.
VerifyDecoded(d, crc32_stored) ==
    IF ~d.ok THEN d ELSE check_crc(d.data, crc32_stored)

\* _verify_crc with the stored bytes as the basis whatever the algorithm.
verify_crc_stored_bytes(file_data, encoding_algo, crc32_stored) ==
    check_crc(file_data, crc32_stored)

\* RCH._verify_crc
verify_crc(file_data, encoding_algo, crc32_stored) ==
    IF encoding_algo = U32(ENCODING_BZIP2)
    THEN VerifyDecoded(decode_data(file_data, encoding_algo), crc32_stored)
    ELSE check_crc(file_data, crc32_stored)

\* Lines 299-304 of RCH.check_rch: a ValueError from _verify_crc is a failed
\* check.
CrcValid(v) == IF v.ok THEN v.data ELSE FALSE

RECURSIVE CheckLoop(_, _, _)
\* Lines 296-307, given the block header b and the payload read.
CheckBlock(f, results, b, file_data) ==
    CheckLoop(f, b.pos + Len(file_data),
        Append(results,
            create_result_entry(sanitize_filename(b.filename), b.filesize,
                b.crc32_stored, b.encoding_algo,
                CrcValid(verify_crc(file_data, b.encoding_algo,
                                    b.crc32_stored)),
                b.timestamp, "Checked")))

\* Lines 290-297, given what read_file_block_header returned (h).
CheckHeader(f, results, h) ==
    IF ~h.ok
    THEN [err     |-> IF IsValueError(h.err) THEN "none" ELSE h.err,
          results |-> IF IsValueError(h.err) THEN results ELSE <<>>,
          written |-> <<>>]
    ELSE CheckBlock(f, results, h.data,
                    read_payload(f, h.data.pos, h.data.filesize))

\* The while loop of RCH.check_rch with the file at offset pos.
CheckLoop(f, pos, results) ==
    CheckHeader(f, results, read_file_block_header(f, pos))

\* Lines 287-289, given what read_rch_header returned (hd).
CheckFrom(f, hd) ==
    IF ~hd.ok THEN [err |-> hd.err, results |-> <<>>, written |-> <<>>]
    ELSE CheckLoop(f, hd.data, <<>>)

\* RCH.check_rch on the bytes of the archive file.
check_rch(f) == CheckFrom(f, read_rch_header(f))

(***************************************************************************)
(* pack and inject                                                         *)
(***************************************************************************)
\* The characters str.strip() removes.
Whitespace ==
    (9..13) \cup (28..32) \cup {133, 160, 5760, 8232, 8233, 8239, 8287, 12288}
    \cup (8192..8202)

RECURSIVE LStrip(_)
LStrip(str) ==
    IF str # <<>> /\ Head(str) \in Whitespace THEN LStrip(Tail(str)) ELSE str

RECURSIVE RStrip(_)
RStrip(str) ==
    IF str # <<>> /\ str[Len(str)] \in Whitespace
    THEN RStrip(SubSeq(str, 1, Len(str) - 1)) ELSE str

\* str.strip()
Strip(str) == RStrip(LStrip(str))

\* The name pack_rch stores for an input (line 114); "-" is standard input.
StoredName(input_file, stdin_name) ==
    IF input_file = <<45>> THEN Utf8Encode(stdin_name)
    ELSE Utf8Encode(basename(input_file))

\* The record RCH._write_file_block returns (lines 138-146).
PackedEntry(filename, encoded_data, crc32, encoding_algorithm) ==
    [filename   |-> Strip(Utf8Decode(filename).data),
     size       |-> U32(Len(encoded_data)),
     crc32      |-> crc32,
     encoding   |-> get_encoding_name(encoding_algorithm),
     crc_passed |-> TRUE,
     timestamp  |-> U32(0),
     status     |-> "Packed"]

RECURSIVE PackLoop(_, _, _, _, _, _, _)
\* RCH._write_file_block once the checksum is known (line 136), and the
\* rest of the loop.
PackBlock(file, inputs, i, encoding_algorithm, level, stdin_name, results, filename, encoded_data, crc32) ==
    PackLoop(file \o write_block_to_file(filename, encoded_data, crc32,
                                         encoding_algorithm),
             inputs, i + 1, encoding_algorithm, level, stdin_name,
             Append(results, PackedEntry(filename, encoded_data, crc32,
                                         encoding_algorithm)))

\* RCH._write_file_block, given what encode_file_data returned: its
\* exception leaves pack_rch through the with block, and the file keeps
\* what was written.
PackEncoded(file, inputs, i, encoding_algorithm, level, stdin_name, results, filename, encoded) ==
    IF ~encoded.ok
    THEN [file |-> file, err |-> encoded.err, results |-> <<>>]
    ELSE PackBlock(file, inputs, i, encoding_algorithm, level, stdin_name,
                   results, filename, encoded.data,
                   calculate_crc32(inputs[i].data, encoded.data,
                                   encoding_algorithm))

\* The for loop of RCH.pack_rch from input i on: the bytes of the archive
\* file and the result records, or the exception raised.
PackLoop(file, inputs, i, encoding_algorithm, level, stdin_name, results) ==
    IF i > Len(inputs)
    THEN [file |-> file, err |-> "none", results |-> results]
    ELSE PackEncoded(file, inputs, i, encoding_algorithm, level, stdin_name,
                     results, StoredName(inputs[i].path, stdin_name),
                     encode_file_data(inputs[i].data, encoding_algorithm,
                                      level))

\* RCH.pack_rch: old is the content of the output file before the call
\* (<<>> if there is none); mode 'wb' truncates it, mode 'ab' keeps it.
pack_rch(old, inputs, append, encoding_algorithm, level, stdin_name) ==
    PackLoop(IF append THEN old ELSE write_rch_header,
             inputs, 1, encoding_algorithm, level, stdin_name, <<>>)

\* RCH.inject_files
inject_files(old, inputs, encoding_algorithm, level, stdin_name) ==
    pack_rch(old, inputs, TRUE, encoding_algorithm, level, stdin_name)

(***************************************************************************)
(* detract.  A file system is a function from the paths that exist to      *)
(* their bytes.                                                            *)
(***************************************************************************)
WriteFile(files, path, bytes) ==
    [q \in DOMAIN files \cup {path} |-> IF q = path THEN bytes ELSE files[q]]

\* os.remove
RemoveFile(files, path) == [q \in DOMAIN files \ {path} |-> files[q]]

\* os.rename(src, dst): dst is replaced if it exists.
RenameFile(files, src, dst) ==
    [q \in (DOMAIN files \ {src}) \cup {dst} |->
        IF q = dst THEN files[src] ELSE files[q]]

RECURSIVE DetractLoop(_, _, _, _, _)
\* Lines 355-362 with the block copied also when it bears the name.
DetractBlockCopied(f, pos, file_to_remove, temp, file_removed, b, file_data) ==
    DetractLoop(f, b.pos + Len(file_data), file_to_remove,
                temp \o Slice(f, pos, b.pos + Len(file_data)),
                file_removed \/ b.filename = file_to_remove)

\* Lines 355-362 with only the first block of the name left out.
DetractBlock_first_only(f, pos, file_to_remove, temp, file_removed, b, file_data) ==
    IF b.filename # file_to_remove \/ file_removed
    THEN DetractLoop(f, b.pos + Len(file_data), file_to_remove,
                     temp \o Slice(f, pos, b.pos + Len(file_data)),
                     file_removed)
    ELSE DetractLoop(f, b.pos + Len(file_data), file_to_remove, temp, TRUE)

\* Lines 355-362, given the block header b read at offset pos and the
\* payload read: the block is copied unless it bears the name.
DetractBlock(f, pos, file_to_remove, temp, file_removed, b, file_data) ==
    IF b.filename # file_to_remove
    THEN DetractLoop(f, b.pos + Len(file_data), file_to_remove,
                     temp \o Slice(f, pos, b.pos + Len(file_data)),
                     file_removed)
    ELSE DetractLoop(f, b.pos + Len(file_data), file_to_remove, temp, TRUE)

\* Lines 348-355, given what read_file_block_header returned (h).
DetractHeader(f, pos, file_to_remove, temp, file_removed, h) ==
    IF ~h.ok
    THEN [err |-> IF IsValueError(h.err) THEN "none" ELSE h.err,
          temp |-> temp, file_removed |-> file_removed]
    ELSE DetractBlock(f, pos, file_to_remove, temp, file_removed, h.data,
                      read_payload(f, h.data.pos, h.data.filesize))

\* The while loop of RCH.detract_file with the archive at offset pos.
DetractLoop(f, pos, file_to_remove, temp, file_removed) ==
    DetractHeader(f, pos, file_to_remove, temp, file_removed,
                  read_file_block_header(f, pos))

\* Lines 364-371 without the os.remove of line 370.
DetractEndNoRemove(files, rch_filename, temp_filename, r) ==
    IF r.err = "none" /\ r.file_removed
    THEN [files |-> RenameFile(WriteFile(files, temp_filename, r.temp),
                               temp_filename, rch_filename),
          err |-> "none", file_removed |-> TRUE]
    ELSE [files |-> WriteFile(files, temp_filename, r.temp), err |-> r.err,
          file_removed |-> FALSE]

\* Lines 364-371, given the state r the loop ended in: an exception leaves
\* the temp file behind, a match renames it over the archive, no match
\* removes it.
DetractEnd(files, rch_filename, temp_filename, r) ==
    IF r.err # "none"
    THEN [files |-> WriteFile(files, temp_filename, r.temp), err |-> r.err,
          file_removed |-> FALSE]
    ELSE IF r.file_removed
    THEN [files |-> RenameFile(WriteFile(files, temp_filename, r.temp),
                               temp_filename, rch_filename),
          err |-> "none", file_removed |-> TRUE]
    ELSE [files |-> RemoveFile(WriteFile(files, temp_filename, r.temp),
                               temp_filename),
          err |-> "none", file_removed |-> FALSE]

\* Line 339 with the archive itself as the file written.
temp_filename_in_place(output_filename) == output_filename

\* Line 339: temp_filename = output_filename + '.tmp'
temp_filename(output_filename) == output_filename \o ".tmp"

\* Lines 344-362 on the bytes f of the archive: the header is copied without
\* a look at its magic.
DetractScan(f, file_to_remove) ==
    DetractLoop(f, Min(28, Len(f)), file_to_remove, Slice(f, 0, 28), FALSE)

\* RCH.detract_file(rch_filename, file_to_remove), output_filename = None:
\* the file system afterwards and the value returned, or the exception.
detract_file(files, rch_filename, file_to_remove) ==
    IF rch_filename \notin DOMAIN files
    THEN [files |-> files, err |-> "FileNotFoundError", file_removed |-> FALSE]
    ELSE DetractEnd(files, rch_filename, temp_filename(rch_filename),
                    DetractScan(files[rch_filename], file_to_remove))

RECURSIVE DetractEach(_, _, _, _, _, _)
\* Lines 385-389 with every name appended to removed_files.
DetractNext_all_removed(rch_filename, files_to_remove, i, removed, not_removed, r) ==
    IF r.err # "none"
    THEN [files |-> r.files, err |-> r.err,
          removed_files |-> <<>>, not_removed_files |-> <<>>]
    ELSE DetractEach(r.files, rch_filename, files_to_remove, i + 1,
                     Append(removed, files_to_remove[i]), not_removed)

\* Lines 385-389, given what detract_file returned (r).
DetractNext(rch_filename, files_to_remove, i, removed, not_removed, r) ==
    IF r.err # "none"
    THEN [files |-> r.files, err |-> r.err,
          removed_files |-> <<>>, not_removed_files |-> <<>>]
    ELSE IF r.file_removed
    THEN DetractEach(r.files, rch_filename, files_to_remove, i + 1,
                     Append(removed, files_to_remove[i]), not_removed)
    ELSE DetractEach(r.files, rch_filename, files_to_remove, i + 1,
                     removed, Append(not_removed, files_to_remove[i]))

\* The for loop of RCH.detract_files from name i on.
DetractEach(files, rch_filename, files_to_remove, i, removed, not_removed) ==
    IF i > Len(files_to_remove)
    THEN [files |-> files, err |-> "none",
          removed_files |-> removed, not_removed_files |-> not_removed]
    ELSE DetractNext(rch_filename, files_to_remove, i, removed, not_removed,
                     detract_file(files, rch_filename, files_to_remove[i]))

\* Lines 377-378: open(output_filename, 'wb') truncates the output file,
\* then src.read() reads the archive as it is by then and dst takes it.
CopyArchive(files, rch_filename, output_filename) ==
    WriteFile(files, output_filename,
              WriteFile(files, output_filename, <<>>)[rch_filename])

\* RCH.detract_files; output_filename = "" stands for None.
detract_files(files, rch_filename, files_to_remove, output_filename) ==
    IF output_filename # ""
    THEN IF rch_filename \notin DOMAIN files
         THEN [files |-> files, err |-> "FileNotFoundError",
               removed_files |-> <<>>, not_removed_files |-> <<>>]
         ELSE DetractEach(CopyArchive(files, rch_filename, output_filename),
                          output_filename, files_to_remove, 1, <<>>, <<>>)
    ELSE DetractEach(files, rch_filename, files_to_remove, 1, <<>>, <<>>)

(***************************************************************************)
(* The state: the working directory, the last call and what it returned    *)
(***************************************************************************)
VARIABLES
    fs,     \* the files that exist: path -> bytes
    call,   \* the last operation and its arguments
    ret,    \* what it returned or raised, and the files it wrote on unpack
    pre,    \* the files the last operation started from: fs as it was,
            \* or no file for a call that reads none (pack, mode 'wb')
    origin, \* the calls that wrote to the archive file, oldest first
    codec,  \* a codec object of lzw.py followed symbol by symbol
    proc    \* a detract_file call and an inject call followed step by step

vars == <<fs, call, ret, pre, origin, codec, proc>>

ARCHIVE == "a.rch"
OUTPUT == "b.rch"

\* RCH.__init__ defaults (line 22) and the command line's (cli.py line 69).
compression_level == 9
stdin_filename == <<115, 116, 100, 105, 110>>

(***************************************************************************)
(* Bounds and input domains                                                *)
(***************************************************************************)
MaxInputs == 2      \* input files per pack call
MaxInject == 1      \* input files per inject call
MaxArchiveLen == 100 \* inject is called on archives of at most so many bytes
MaxNames == 2       \* names per detract call
MaxCodecLen == 3    \* bytes per direct codec call
MaxCodes == 3       \* codes per stream handed to decode directly

NameA == <<97>>
NameB == <<98>>
NameE == <<101>>
\* "../x", "b/..": stored names with directory parts
NameUpX == <<46, 46, 47, 120>>
NameBUp == <<98, 47, 46, 46>>
\* a base name of 41 characters, one more than the name field holds
LongName == [i \in 1..41 |-> 108]
\* "d/b": an input path with a directory part
PathB == <<100, 47>> \o NameB

\* 3 stands for every id that is not one of the three algorithms
Algorithms == {ENCODING_XOR255_LZW, ENCODING_XOR255, ENCODING_BZIP2, 3}

RECURSIVE SeqsUpTo(_, _)
\* The sequences over S of length at most n.
SeqsUpTo(S, n) ==
    IF n = 0 THEN {<<>>}
    ELSE LET shorter == SeqsUpTo(S, n - 1)
         IN  shorter \cup {Append(q, x) : q \in shorter, x \in S}

\* The input files on disk: path and content.
Inputs ==
    {[path |-> NameA,    data |-> <<65, 65, 65>>],
     [path |-> PathB,    data |-> <<66, 65>>],
     [path |-> NameE,    data |-> <<>>],
     [path |-> LongName, data |-> <<65>>]}
InjectInputs == {x \in Inputs : x.path = PathB}
CodecInputs == SeqsUpTo({65, 66}, MaxCodecLen)
XorInputs == SeqsUpTo({0, 65, 255}, MaxCodecLen)

\* Names of more than 255 characters and names about that long: an optional
\* directory "d/", a root of 'r' and an extension ('.' and 'x') of the
\* lengths below, 0 for no extension.
RootLens == {1, 252, 300}
ExtLens == {0, 4, 255, 256, 301}
LongPath(dir, root, ext) ==
    dir \o [i \in 1..root |-> 114]
        \o [i \in 1..ext |-> IF i = 1 THEN 46 ELSE 120]
LongPaths ==
    {LongPath(dir, root, ext) :
        dir \in {<<>>, <<100, 47>>}, root \in RootLens, ext \in ExtLens}

NoCall == [op |-> "none", inputs |-> <<>>, algorithm |-> ENCODING_BZIP2,
           force |-> FALSE, filenames |-> {}, names |-> <<>>, output |-> "",
           data |-> <<>>]
NoFiles == [q \in {} |-> <<>>]
NoRet == [err |-> "none", results |-> <<>>, written |-> <<>>,
          removed_files |-> <<>>, not_removed_files |-> <<>>,
          encoded |-> <<>>, decoded |-> Ok(<<>>), value |-> <<>>]

\* string = b"" and encoded_data = []: no code yet
NoCode == -1

\* LZWBase.__init__: reset_dictionary gives 256 entries and next_code 256.
\* Of a codec object followed step by step the model keeps the counts and
\* the codes, not the strings: next_code, the number of entries of the
\* table, the code of the current string and the code emitted last.
NewCodec(class) ==
    [class |-> class, op |-> "idle", next_code |-> 256, table |-> 256,
     string |-> NoCode, emitted |-> NoCode]

\* No detract_file call and no inject call is followed step by step: dpc and
\* ipc are the positions of the two calls, target the name detract_file
\* looks for, pos the offset of its read handle, file_removed its flag, fd
\* what the append handle of inject refers to, buf the bytes inject has
\* written and not yet flushed, and log the order of the steps that matter
\* to the other call.
NoProc ==
    [dpc |-> "idle", target |-> <<>>, pos |-> 0, file_removed |-> FALSE,
     ipc |-> "idle", algorithm |-> 0, fd |-> "none", buf |-> <<>>,
     log |-> <<>>]

\* The content of a file opened for append or read after creation.
Content(files, path) == IF path \in DOMAIN files THEN files[path] ELSE <<>>

\* unpack, check and a codec call leave the archive as it is, and detract is
\* the last call made on an archive: a behaviour ends with one of them, and
\* every call starts from a directory that holds at most the archive.
Idle == call.op \in {"none", "pack", "inject", "craft"}

\* A damaged archive is only read: unpack, check and detract follow it.
Readable == Idle \/ call.op = "damage"

\* pack (mode 'wb') and the other tools replace the archive whatever it held,
\* so what they leave does not depend on the state they start from: the model
\* takes these steps from the empty directory only, which reaches the same
\* states.
Fresh == DOMAIN fs = {}

Init ==
    /\ fs = NoFiles
    /\ call = NoCall
    /\ ret = NoRet
    /\ pre = NoFiles
    /\ origin = <<>>
    /\ codec = NewCodec("LZWCompressor")
    /\ proc = NoProc

(***************************************************************************)
(* The operations of the handler                                           *)
(***************************************************************************)
PackCall(inputs, alg) ==
    [NoCall EXCEPT !.op = "pack", !.inputs = inputs, !.algorithm = alg]

PackDone(inputs, alg, r) ==
    /\ fs' = WriteFile(fs, ARCHIVE, r.file)
    /\ call' = PackCall(inputs, alg)
    /\ ret' = [NoRet EXCEPT !.err = r.err, !.results = r.results]
    /\ pre' = NoFiles
    /\ codec' = codec
    /\ proc' = proc
    /\ origin' = <<PackCall(inputs, alg)>>

Pack ==
    \E inputs \in SeqsUpTo(Inputs, MaxInputs), alg \in Algorithms :
        /\ Idle
        /\ Fresh
        /\ PackDone(inputs, alg,
                    pack_rch(Content(fs, ARCHIVE), inputs, FALSE, alg,
                             compression_level, stdin_filename))

InjectCall(inputs, alg) ==
    [NoCall EXCEPT !.op = "inject", !.inputs = inputs, !.algorithm = alg]

InjectDone(inputs, alg, r) ==
    /\ fs' = WriteFile(fs, ARCHIVE, r.file)
    /\ call' = InjectCall(inputs, alg)
    /\ ret' = [NoRet EXCEPT !.err = r.err, !.results = r.results]
    /\ pre' = fs
    /\ codec' = codec
    /\ proc' = proc
    /\ origin' = IF ARCHIVE \in DOMAIN fs /\ r.file = fs[ARCHIVE] THEN origin
                  ELSE Append(origin, InjectCall(inputs, alg))

Inject ==
    \E inputs \in SeqsUpTo(InjectInputs, MaxInject) \ {<<>>},
       alg \in Algorithms :
        /\ Idle
        /\ Len(Content(fs, ARCHIVE)) <= MaxArchiveLen
        /\ InjectDone(inputs, alg,
                      inject_files(Content(fs, ARCHIVE), inputs, alg,
                                   compression_level, stdin_filename))

\* open(rch_filename, 'rb') of a file that does not exist
NotFound == [err |-> "FileNotFoundError", results |-> <<>>, written |-> <<>>]

UnpackDone(force, filenames, r) ==
    /\ fs' = fs
    /\ call' = [NoCall EXCEPT !.op = "unpack", !.force = force,
                              !.filenames = filenames]
    /\ ret' = [NoRet EXCEPT !.err = r.err, !.results = r.results,
                            !.written = r.written]
    /\ pre' = fs
    /\ codec' = codec
    /\ proc' = proc
    /\ origin' = origin

Unpack ==
    \E force \in BOOLEAN, filenames \in {{}, {NameA}} :
        /\ Readable
        /\ UnpackDone(force, filenames,
                      IF ARCHIVE \in DOMAIN fs
                      THEN unpack_rch(fs[ARCHIVE], force, filenames)
                      ELSE NotFound)

CheckDone(r) ==
    /\ fs' = fs
    /\ call' = [NoCall EXCEPT !.op = "check"]
    /\ ret' = [NoRet EXCEPT !.err = r.err, !.results = r.results]
    /\ pre' = fs
    /\ codec' = codec
    /\ proc' = proc
    /\ origin' = origin

Check ==
    /\ Readable
    /\ CheckDone(IF ARCHIVE \in DOMAIN fs THEN check_rch(fs[ARCHIVE])
                 ELSE NotFound)

DetractDone(names, output, r) ==
    /\ fs' = r.files
    /\ call' = [NoCall EXCEPT !.op = "detract", !.names = names,
                              !.output = output]
    /\ ret' = [NoRet EXCEPT !.err = r.err,
                            !.removed_files = r.removed_files,
                            !.not_removed_files = r.not_removed_files]
    /\ pre' = fs
    /\ codec' = codec
    /\ proc' = proc
    /\ origin' = origin

Detract ==
    \E names \in SeqsUpTo({NameA, NameB}, MaxNames) \ {<<>>},
       output \in {"", OUTPUT, ARCHIVE} :
        /\ Readable
        /\ DetractDone(names, output,
                       detract_files(fs, ARCHIVE, names, output))

\* LZWDecompressor().decode(LZWCompressor().encode(data))
LzwDone(data, encoded) ==
    /\ fs' = fs
    /\ call' = [NoCall EXCEPT !.op = "lzw", !.data = data]
    /\ ret' = [NoRet EXCEPT !.encoded = encoded,
                            !.decoded = lzw_decode(encoded)]
    /\ pre' = fs
    /\ codec' = codec
    /\ proc' = proc
    /\ origin' = origin

LzwRoundTrip ==
    \E data \in CodecInputs :
        /\ Idle
        /\ Fresh
        /\ LzwDone(data, lzw_encode(data))

\* xor255(xor255(data))
XorDone(data, once) ==
    /\ fs' = fs
    /\ call' = [NoCall EXCEPT !.op = "xor255", !.data = data]
    /\ ret' = [NoRet EXCEPT !.encoded = once, !.decoded = Ok(xor255(once))]
    /\ pre' = fs
    /\ codec' = codec
    /\ proc' = proc
    /\ origin' = origin

XorRoundTrip ==
    \E data \in XorInputs :
        /\ Idle
        /\ Fresh
        /\ XorDone(data, xor255(data))

\* RCH._sanitize_filename(filename), called on its own
SanitizeDone(filename, sanitized) ==
    /\ fs' = fs
    /\ call' = [NoCall EXCEPT !.op = "sanitize", !.data = filename]
    /\ ret' = [NoRet EXCEPT !.value = sanitized]
    /\ pre' = fs
    /\ codec' = codec
    /\ proc' = proc
    /\ origin' = origin

Sanitize ==
    \E filename \in LongPaths :
        /\ Idle
        /\ Fresh
        /\ SanitizeDone(filename, sanitize_filename(filename))

\* Code streams with single bytes, the first codes assigned and a code far
\* beyond them.
CodeStreams == SeqsUpTo({65, 66, 256, 257, 300}, MaxCodes)

\* LZWDecompressor().decode(encoded), encoded the 2-byte form of codes
DecodeDone(codes, encoded) ==
    /\ fs' = fs
    /\ call' = [NoCall EXCEPT !.op = "lzw_decode", !.data = codes]
    /\ ret' = [NoRet EXCEPT !.encoded = encoded,
                            !.decoded = lzw_decode(encoded)]
    /\ pre' = fs
    /\ codec' = codec
    /\ proc' = proc
    /\ origin' = origin

\* A byte string of odd length ends with a byte that is a code of its own.
OddTails == {<<>>, <<7>>}

Decode ==
    \E codes \in CodeStreams, tail \in OddTails :
        /\ Idle
        /\ Fresh
        /\ DecodeDone(codes \o tail, to_bytes(codes) \o tail)

\* c = LZWCompressor(); c.encode(data); c.encode(data): __init__ resets the
\* dictionary, encode does not.
EncodeTwiceDone(data, first, second) ==
    /\ fs' = fs
    /\ call' = [NoCall EXCEPT !.op = "lzw_twice", !.data = data]
    /\ ret' = [NoRet EXCEPT !.encoded = first, !.value = second]
    /\ pre' = fs
    /\ codec' = codec
    /\ proc' = proc
    /\ origin' = origin

EncodeTwice ==
    \E data \in CodecInputs :
        /\ Idle
        /\ Fresh
        /\ EncodeTwiceDone(data, EncodeOn(reset_dictionary, data).encoded,
                           EncodeOn(EncodeOn(reset_dictionary, data).table,
                                    data).encoded)

(***************************************************************************)
(* The environment: archives written by other tools, as the security tests *)
(* write them (tests/test_security.py)                                     *)
(***************************************************************************)
CraftNames == {NameA, NameUpX, NameBUp}
CraftData == <<65, 65, 65>>
\* no bzip2 stream, and as a code sequence it starts with code 256
Garbage == <<1, 0, 7>>
BadMagic == <<73, 78, 86, 65>>
\* the codes 65 and 300: the second is no code of the table and not the next
BadCode == <<0, 65, 1, 44>>

\* f.write(b'FZ'); f.write(name.ljust(40, '\x00').encode('utf-8'));
\* f.write(struct.pack('<I I I I I', 1, 0, len(payload), crc, algorithm));
\* f.write(payload)
RawBlock(name, payload, crc, algorithm) ==
    <<70, 90>> \o ljust40(name) \o U32(1) \o U32(0) \o U32(Len(payload))
    \o crc \o U32(algorithm) \o payload

\* The payload of a crafted block: Garbage, or CraftData as the algorithm
\* encodes it (as it is for an unknown id).
CraftPayload(e, kind) ==
    IF kind = "garbage" THEN Garbage
    ELSE IF kind = "badcode" THEN BadCode
    ELSE IF e.ok THEN e.data ELSE CraftData

\* A block whose payload is CraftData properly encoded and whose checksum is
\* right ("proper") or off by one bit ("badcrc"), or whose payload is
\* Garbage with the checksum of the garbage ("garbage").
CraftFrom(name, algorithm, kind, payload) ==
    RawBlock(name, payload,
             WordXor(IF kind \in {"proper", "badcrc"}
                        /\ algorithm = ENCODING_BZIP2
                     THEN Crc32(CraftData) ELSE Crc32(payload),
                     IF kind = "badcrc" THEN U32(1) ELSE U32(0)),
             algorithm)

CraftBlock(name, algorithm, kind) ==
    CraftFrom(name, algorithm, kind,
              CraftPayload(encode_file_data(CraftData, algorithm,
                                            compression_level), kind))

CraftedBlocks ==
    {CraftBlock(n, a, k) : n \in CraftNames, a \in Algorithms,
                           k \in {"proper", "badcrc", "garbage", "badcode"}}

\* Three sound blocks, the first and the last under one name.
TwinBlocks ==
    <<CraftBlock(NameA, ENCODING_XOR255, "proper"),
      CraftBlock(NameUpX, ENCODING_XOR255, "proper"),
      CraftBlock(NameA, ENCODING_XOR255_LZW, "proper")>>

RECURSIVE Concat(_)
Concat(seqs) == IF seqs = <<>> THEN <<>> ELSE Head(seqs) \o Concat(Tail(seqs))

Craft ==
    \E magic \in {RCH_MAGIC, BadMagic},
       blocks \in {<<>>, TwinBlocks} \cup {<<b>> : b \in CraftedBlocks} :
        /\ Idle
        /\ Fresh
        /\ magic = BadMagic => blocks \in {<<>>} \cup
               {<<CraftBlock(n, ENCODING_XOR255, "proper")>> : n \in CraftNames}
        /\ fs' = WriteFile(fs, ARCHIVE,
                     magic \o Slice(write_rch_header, 4, 28) \o Concat(blocks))
        /\ call' = [NoCall EXCEPT !.op = "craft"]
        /\ ret' = NoRet
        /\ pre' = NoFiles
        /\ codec' = codec
        /\ proc' = proc
        /\ origin' = <<[NoCall EXCEPT !.op = "craft"]>>

\* The archive cut short (a copy that broke off), or with bytes that are no
\* block behind its last block: the last drop bytes are missing, junk
\* follows.  The 28-byte header stays whole.
DropLens == {1, 9, 30, 61}
Junk == <<88, 88>>
Damages ==
    {[drop |-> k, junk |-> <<>>] : k \in DropLens}
    \cup {[drop |-> 0, junk |-> Junk]}

DamageCall(d) == [NoCall EXCEPT !.op = "damage", !.data = <<d.drop>> \o d.junk]

Damage ==
    \E d \in Damages :
        /\ call.op \in {"pack", "craft"}
        /\ ret.err = "none"
        /\ Len(fs[ARCHIVE]) >= 28 + 62
        /\ fs' = WriteFile(fs, ARCHIVE,
                     Slice(fs[ARCHIVE], 0, Len(fs[ARCHIVE]) - d.drop) \o d.junk)
        /\ call' = DamageCall(d)
        /\ ret' = NoRet
        /\ pre' = fs
        /\ codec' = codec
        /\ proc' = proc
        /\ origin' = Append(origin, DamageCall(d))

(***************************************************************************)
(* One codec object, symbol by symbol.  Whether string + symbol is in the  *)
(* dictionary depends on the data: both branches are taken, and the code   *)
(* found is the newest one.                                                *)
(***************************************************************************)
\* the byte read next, as a code
Symbols == {255}

\* the codes of the strings of more than one byte
LongCodes(c) == IF c.next_code > 256 THEN {c.next_code - 1} ELSE {}

\* LZWBase.add_to_dictionary on the counts: a new key, the code next_code.
Added(c) ==
    IF BelowCeiling(c.next_code)
    THEN [c EXCEPT !.table = @ + 1, !.next_code = @ + 1]
    ELSE c

ArchiveUnchanged == UNCHANGED <<fs, call, ret, pre, origin, proc>>

\* encode is called: string = b"", encoded_data = [], the dictionary as the
\* object holds it.
BeginEncode ==
    /\ codec.class = "LZWCompressor" /\ codec.op = "idle"
    /\ codec' = [codec EXCEPT !.op = "encode", !.string = NoCode,
                              !.emitted = NoCode]
    /\ ArchiveUnchanged

\* string_plus_symbol in self.dictionary
EncodeKnown ==
    /\ codec.op = "encode"
    /\ \E code \in (IF codec.string = NoCode THEN Symbols
                     ELSE LongCodes(codec)) :
           codec' = [codec EXCEPT !.string = code]
    /\ ArchiveUnchanged

\* string_plus_symbol not in self.dictionary
EncodeNew ==
    /\ codec.op = "encode" /\ codec.string # NoCode
    /\ \E symbol \in Symbols :
           codec' = [Added(codec) EXCEPT !.emitted = codec.string,
                                         !.string = symbol]
    /\ ArchiveUnchanged

\* the end of the data: the code of the last string
EncodeEnd ==
    /\ codec.op = "encode"
    /\ codec' = [codec EXCEPT !.op = "idle",
                              !.emitted = IF codec.string # NoCode
                                          THEN codec.string ELSE @]
    /\ ArchiveUnchanged

\* decode is called and resolves its first code
BeginDecode ==
    /\ codec.class = "LZWDecompressor" /\ codec.op = "idle"
    /\ codec' = [codec EXCEPT !.op = "decode"]
    /\ ArchiveUnchanged

\* a code after the first, in the table or the one about to be assigned
DecodeCode ==
    /\ codec.op = "decode"
    /\ codec' = Added(codec)
    /\ ArchiveUnchanged

\* the end of the codes, or an invalid code
DecodeEnd ==
    /\ codec.op = "decode"
    /\ codec' = [codec EXCEPT !.op = "idle"]
    /\ ArchiveUnchanged

InitLzw ==
    /\ fs = NoFiles
    /\ call = NoCall
    /\ ret = NoRet
    /\ pre = NoFiles
    /\ origin = <<>>
    /\ codec \in {NewCodec("LZWCompressor"), NewCodec("LZWDecompressor")}
    /\ proc = NoProc

NextLzw ==
    \/ BeginEncode \/ EncodeKnown \/ EncodeNew \/ EncodeEnd
    \/ BeginDecode \/ DecodeCode \/ DecodeEnd

SpecLzw == InitLzw /\ [][NextLzw]_vars

(***************************************************************************)
(* detract_file and inject followed step by step.  The two calls run on    *)
(* the same archive; each step below is one system call, or a run of       *)
(* statements that touches no file.  A write reaches the file when the     *)
(* handle is closed (the blocks here are far below the buffer size), a     *)
(* read sees the file as it is when the bytes are asked for.               *)
(***************************************************************************)
TEMP == temp_filename(ARCHIVE)

Calls == UNCHANGED <<call, ret, pre, origin, codec>>

\* os.rename(temp_filename, output_filename) under a handle another process
\* holds on output_filename: the handle keeps the file it opened, which has
\* no name any more.
AfterRename_same_file(fd) == fd

AfterRename(fd) == IF fd = "live" THEN "unlinked" ELSE fd

\* Line 344: both files are opened, and mode 'wb' creates or empties the
\* temp file.
DetractOpen ==
    /\ proc.dpc = "start"
    /\ ARCHIVE \in DOMAIN fs
    /\ fs' = WriteFile(fs, TEMP, <<>>)
    /\ proc' = [proc EXCEPT !.dpc = "header"]
    /\ Calls

\* Line 345: temp_file.write(rch_file.read(28))
DetractCopyHeader ==
    /\ proc.dpc = "header"
    /\ fs' = WriteFile(fs, TEMP, fs[TEMP] \o Slice(fs[ARCHIVE], 0, 28))
    /\ proc' = [proc EXCEPT !.dpc = "scan",
                            !.pos = Min(28, Len(fs[ARCHIVE]))]
    /\ Calls

\* Lines 355-362 for the block whose header h was read at proc.pos: the
\* block is written to the temp file unless it bears the name.
DetractStep(h, file_data) ==
    /\ fs' = IF h.filename # proc.target
             THEN WriteFile(fs, TEMP,
                      fs[TEMP] \o Slice(fs[ARCHIVE], proc.pos,
                                        h.pos + Len(file_data)))
             ELSE fs
    /\ proc' = [proc EXCEPT !.pos = h.pos + Len(file_data),
                            !.file_removed = @ \/ h.filename = proc.target]

\* Lines 347-362, one turn of the loop that finds a block.
DetractCopyOrSkip ==
    /\ proc.dpc = "scan"
    /\ read_file_block_header(fs[ARCHIVE], proc.pos).ok
    /\ DetractStep(read_file_block_header(fs[ARCHIVE], proc.pos).data,
                   read_payload(fs[ARCHIVE],
                       read_file_block_header(fs[ARCHIVE], proc.pos).data.pos,
                       read_file_block_header(fs[ARCHIVE],
                                              proc.pos).data.filesize))
    /\ Calls

\* Lines 349-353: read_file_block_header raises ValueError, the loop ends
\* and both files are closed.
DetractScanEnd ==
    /\ proc.dpc = "scan"
    /\ ~read_file_block_header(fs[ARCHIVE], proc.pos).ok
    /\ IsValueError(read_file_block_header(fs[ARCHIVE], proc.pos).err)
    /\ proc' = [proc EXCEPT !.dpc = "closed", !.log = Append(@, "eof")]
    /\ fs' = fs
    /\ Calls

\* Lines 349-353: another exception leaves the function; the temp file
\* stays.
DetractScanFail ==
    /\ proc.dpc = "scan"
    /\ ~read_file_block_header(fs[ARCHIVE], proc.pos).ok
    /\ ~IsValueError(read_file_block_header(fs[ARCHIVE], proc.pos).err)
    /\ proc' = [proc EXCEPT !.dpc = "failed"]
    /\ fs' = fs
    /\ Calls

\* Lines 364-366: a block was left out, the temp file replaces the archive.
DetractRename ==
    /\ proc.dpc = "closed"
    /\ proc.file_removed
    /\ fs' = RenameFile(fs, TEMP, ARCHIVE)
    /\ proc' = [proc EXCEPT !.dpc = "done", !.fd = AfterRename(@),
                            !.log = Append(@, "rename")]
    /\ Calls

\* Lines 367-370: no block bore the name, the temp file is removed.
DetractRemove ==
    /\ proc.dpc = "closed"
    /\ ~proc.file_removed
    /\ fs' = RemoveFile(fs, TEMP)
    /\ proc' = [proc EXCEPT !.dpc = "done"]
    /\ Calls

\* The process is stopped between two steps of detract_file.
Interrupt ==
    /\ proc.dpc \in {"start", "header", "scan", "closed"}
    /\ proc' = [proc EXCEPT !.dpc = "killed"]
    /\ fs' = fs
    /\ Calls

\* pack_rch line 108 with append = True: open(output_rch, 'ab').
InjectOpen ==
    /\ proc.ipc = "start"
    /\ proc' = [proc EXCEPT !.ipc = "open", !.fd = "live",
                            !.log = Append(@, "open")]
    /\ fs' = fs
    /\ Calls

\* pack_rch lines 112-117: the blocks of the input files are written to the
\* handle.
InjectWrite ==
    \E inputs \in SeqsUpTo(InjectInputs, MaxInject) \ {<<>>} :
        /\ proc.ipc = "open"
        /\ proc' = [proc EXCEPT
                       !.ipc = "written",
                       !.buf = inject_files(<<>>, inputs, proc.algorithm,
                                            compression_level,
                                            stdin_filename).file]
        /\ fs' = fs
        /\ Calls

\* The with statement of pack_rch ends: the handle is closed and what was
\* written goes to the end of the file the handle refers to.
InjectClose ==
    /\ proc.ipc = "written"
    /\ fs' = IF proc.fd = "live"
             THEN WriteFile(fs, ARCHIVE, fs[ARCHIVE] \o proc.buf)
             ELSE fs
    /\ proc' = [proc EXCEPT !.ipc = "done", !.fd = "none",
                            !.log = Append(@, "flush")]
    /\ Calls

\* The archives the calls start from: what pack wrote, whole or cut short.
PackedArchives ==
    {pack_rch(<<>>, inputs, FALSE, alg, compression_level,
              stdin_filename).file :
        inputs \in SeqsUpTo(Inputs, MaxInputs),
        alg \in {ENCODING_XOR255_LZW, ENCODING_XOR255, ENCODING_BZIP2}}

CutArchives == {Slice(f, 0, Len(f) - 1) : f \in PackedArchives}

Targets == {NameA, NameB}

InitDetract ==
    /\ \E f \in PackedArchives \cup CutArchives :
          /\ fs = WriteFile(NoFiles, ARCHIVE, f)
          /\ pre = WriteFile(NoFiles, ARCHIVE, f)
    /\ \E n \in Targets : proc = [NoProc EXCEPT !.dpc = "start", !.target = n]
    /\ call = NoCall
    /\ ret = NoRet
    /\ origin = <<>>
    /\ codec = NewCodec("LZWCompressor")

NextDetract ==
    \/ DetractOpen \/ DetractCopyHeader \/ DetractCopyOrSkip
    \/ DetractScanEnd \/ DetractScanFail \/ DetractRename \/ DetractRemove
    \/ Interrupt

SpecDetract == InitDetract /\ [][NextDetract]_vars

\* The race of detract_file with inject: the archives are the ones pack wrote
\* from names that fit the name field, the name detract looks for is not the
\* one inject adds.
RaceArchives ==
    {pack_rch(<<>>, inputs, FALSE, alg, compression_level,
              stdin_filename).file :
        inputs \in SeqsUpTo({x \in Inputs : Len(x.path) <= 40}, MaxInputs),
        alg \in {ENCODING_XOR255, ENCODING_BZIP2}}

InitRace ==
    /\ \E f \in RaceArchives :
          /\ fs = WriteFile(NoFiles, ARCHIVE, f)
          /\ pre = WriteFile(NoFiles, ARCHIVE, f)
    /\ \E alg \in {ENCODING_XOR255, ENCODING_BZIP2} :
          proc = [NoProc EXCEPT !.dpc = "start", !.target = NameA,
                                !.ipc = "start", !.algorithm = alg]
    /\ call = NoCall
    /\ ret = NoRet
    /\ origin = <<>>
    /\ codec = NewCodec("LZWCompressor")

NextRace ==
    \/ DetractOpen \/ DetractCopyHeader \/ DetractCopyOrSkip
    \/ DetractScanEnd \/ DetractRename \/ DetractRemove
    \/ InjectOpen \/ InjectWrite \/ InjectClose

SpecRace == InitRace /\ [][NextRace]_vars

Next ==
    \/ Pack \/ Inject \/ Unpack \/ Check \/ Detract \/ Craft \/ Damage
    \/ LzwRoundTrip \/ XorRoundTrip \/ Sanitize \/ Decode \/ EncodeTwice

Spec == Init /\ [][Next]_vars

(***************************************************************************)
(* The layout of an archive as the writer lays it out: a 28-byte header,   *)
(* then blocks of 2 + 40 + 20 bytes and a payload each.  The properties    *)
(* below speak of the blocks of an archive in these terms.  Names are      *)
(* ASCII here, so a name as bytes is the name as a string.                 *)
(***************************************************************************)
\* A whole block starts at offset pos of f.
HasBlockAt(f, pos) ==
    /\ pos + 62 <= Len(f)
    /\ Slice(f, pos, pos + 2) = BLOCK_MAGIC
    /\ f[pos + 53] = 0 /\ f[pos + 54] = 0
    /\ pos + 62 + f[pos + 51] + 256 * f[pos + 52] <= Len(f)

PayloadLenAt(f, pos) == f[pos + 51] + 256 * f[pos + 52]

BlockAt(f, pos) ==
    [name    |-> UntilNul(Slice(f, pos + 2, pos + 42)),
     crc     |-> Slice(f, pos + 54, pos + 58),
     algo    |-> Slice(f, pos + 58, pos + 62),
     payload |-> Slice(f, pos + 62, pos + 62 + PayloadLenAt(f, pos)),
     bytes   |-> Slice(f, pos, pos + 62 + PayloadLenAt(f, pos))]

RECURSIVE BlocksFrom(_, _)
\* The whole blocks that follow one another from offset pos on.
BlocksFrom(f, pos) ==
    IF ~HasBlockAt(f, pos) THEN <<>>
    ELSE <<BlockAt(f, pos)>> \o BlocksFrom(f, pos + 62 + PayloadLenAt(f, pos))

Blocks(f) == BlocksFrom(f, 28)

RECURSIVE BytesOf(_)
BytesOf(blocks) ==
    IF blocks = <<>> THEN <<>> ELSE Head(blocks).bytes \o BytesOf(Tail(blocks))

\* A header with the format magic, then whole blocks up to the end of the
\* file, each with an ASCII name.
WellFormed(f) ==
    /\ Len(f) >= 28
    /\ Slice(f, 0, 4) = RCH_MAGIC
    /\ Slice(f, 0, 28) \o BytesOf(Blocks(f)) = f
    /\ \A i \in 1..Len(Blocks(f)) :
           \A k \in 1..Len(Blocks(f)[i].name) : Blocks(f)[i].name[k] < 128

\* The part of a name after its last '/'.
BaseName(name) ==
    IF \E i \in 1..Len(name) : name[i] = 47
    THEN SubSeq(name,
                1 + (CHOOSE i \in 1..Len(name) :
                         name[i] = 47 /\ \A j \in (i + 1)..Len(name) : name[j] # 47),
                Len(name))
    ELSE name

HasSeparator(name) == \E i \in 1..Len(name) : name[i] = 47

\* The payload of block b decodes under the algorithm id stored with it.
Decodable(b) == decode_data(b.payload, b.algo).ok
DecodedBytes(b) == decode_data(b.payload, b.algo).data

\* The bytes the checksum of block b is taken over: the decoded payload for
\* bzip2, the stored payload otherwise.
BasisBytes(b) ==
    IF b.algo = U32(ENCODING_BZIP2) THEN DecodedBytes(b) ELSE b.payload

KnownAlgorithm(b) ==
    b.algo \in {U32(ENCODING_XOR255_LZW), U32(ENCODING_XOR255),
                U32(ENCODING_BZIP2)}

\* The stored checksum is the checksum of the basis bytes.
ChecksumMatches(b) ==
    /\ b.algo = U32(ENCODING_BZIP2) => Decodable(b)
    /\ Crc32(BasisBytes(b)) = b.crc

\* The block decodes and its checksum verification fails / passes.
VerificationFails(b) == Decodable(b) /\ Crc32(BasisBytes(b)) # b.crc
Valid(b) == Decodable(b) /\ Crc32(BasisBytes(b)) = b.crc

\* The log of writes that leaves a file per valid block among the first n.
RECURSIVE ValidWrites(_, _)
ValidWrites(blocks, n) ==
    IF n = 0 THEN <<>>
    ELSE IF Valid(blocks[n])
    THEN Append(ValidWrites(blocks, n - 1),
                [name |-> BaseName(blocks[n].name),
                 data |-> DecodedBytes(blocks[n])])
    ELSE ValidWrites(blocks, n - 1)

\* The archive the last call read.
ArchiveRead == pre[ARCHIVE]

\* The last call was unpack / check / detract of a well-formed archive.
UnpackedAll ==
    /\ call.op = "unpack" /\ call.filenames = {}
    /\ ARCHIVE \in DOMAIN pre /\ WellFormed(ArchiveRead)
Checked ==
    /\ call.op = "check"
    /\ ARCHIVE \in DOMAIN pre /\ WellFormed(ArchiveRead)
DetractedOne ==
    /\ call.op = "detract" /\ Len(call.names) = 1 /\ call.output = ""
    /\ ARCHIVE \in DOMAIN pre /\ WellFormed(ArchiveRead)

\* The archive was written by pack and inject calls only, pack first, each
\* with one of the three algorithms.
PackedOnly ==
    /\ origin # <<>> /\ origin[1].op = "pack"
    /\ \A k \in 1..Len(origin) :
           /\ origin[k].op \in {"pack", "inject"}
           /\ origin[k].algorithm \in {ENCODING_XOR255_LZW, ENCODING_XOR255,
                                       ENCODING_BZIP2}

RECURSIVE InputsOf(_)
\* The input files of the calls, in the order they were packed.
InputsOf(calls) ==
    IF calls = <<>> THEN <<>> ELSE Head(calls).inputs \o InputsOf(Tail(calls))

(***************************************************************************)
(* Properties                                                              *)
(***************************************************************************)
\* C1: pack followed by unpack (force = false, no name filter) round-trips:
\* for N >= 0 inputs with pairwise distinct base names of at most 39 bytes,
\* any payload (the empty one included) and algorithm 0, 1 or 2, unpack
\* returns N records in input order, all 'Unpacked', and writes N files
\* whose names and bytes are the packed names and payloads.
C1_PackUnpackRoundTrip ==
    (/\ call.op = "unpack" /\ ~call.force /\ call.filenames = {}
     /\ PackedOnly /\ Len(origin) = 1
     /\ \A i \in 1..Len(origin[1].inputs) :
            /\ Len(BaseName(origin[1].inputs[i].path)) <= 39
            /\ \A j \in 1..Len(origin[1].inputs) :
                   i # j => BaseName(origin[1].inputs[i].path)
                            # BaseName(origin[1].inputs[j].path))
    => /\ ret.err = "none"
       /\ Len(ret.results) = Len(origin[1].inputs)
       /\ Len(ret.written) = Len(origin[1].inputs)
       /\ \A i \in 1..Len(origin[1].inputs) :
              /\ ret.results[i].status = "Unpacked"
              /\ ret.results[i].filename = BaseName(origin[1].inputs[i].path)
              /\ ret.written[i] =
                     [name |-> BaseName(origin[1].inputs[i].path),
                      data |-> origin[1].inputs[i].data]

\* C2: the dictionary codec round-trips: for every byte sequence x, the
\* empty one included, decode(encode(x)) returns x and raises nothing.
C2_LzwRoundTrip ==
    call.op = "lzw" => ret.decoded = Ok(call.data)

\* C3: with force = true, unpack writes the decoded bytes of a block whose
\* checksum verification fails and records it 'Unpacked' with
\* crc_passed = false.
C3_ForceWritesFailedBlock ==
    (UnpackedAll /\ call.force)
    => \A i \in 1..Len(Blocks(ArchiveRead)) :
           VerificationFails(Blocks(ArchiveRead)[i])
           => /\ ret.err = "none"
              /\ i <= Len(ret.results)
              /\ ret.results[i].status = "Unpacked"
              /\ ret.results[i].crc_passed = FALSE
              /\ \E k \in 1..Len(ret.written) :
                     ret.written[k] =
                         [name |-> BaseName(Blocks(ArchiveRead)[i].name),
                          data |-> DecodedBytes(Blocks(ArchiveRead)[i])]

\* Every block's base name names a file (it is not empty, "." or "..").
FileNamesOnly(blocks) ==
    \A i \in 1..Len(blocks) :
        BaseName(blocks[i].name) \notin {<<>>, <<46>>, <<46, 46>>}

\* C4: with force = false, unpack isolates checksum failures per block: a
\* block whose verification fails is recorded 'Failed' with
\* crc_passed = false and nothing is written for it, and every later block
\* is still processed: a valid block is written and recorded 'Unpacked'
\* wherever it stands.
C4_FailureIsolatedPerBlock ==
    (UnpackedAll /\ ~call.force /\ FileNamesOnly(Blocks(ArchiveRead)))
    => /\ ret.err = "none"
       /\ Len(ret.results) = Len(Blocks(ArchiveRead))
       /\ \A i \in 1..Len(Blocks(ArchiveRead)) :
              /\ VerificationFails(Blocks(ArchiveRead)[i])
                 => /\ ret.results[i].status = "Failed"
                    /\ ret.results[i].crc_passed = FALSE
              /\ Valid(Blocks(ArchiveRead)[i])
                 => /\ ret.results[i].status = "Unpacked"
                    /\ ret.results[i].crc_passed = TRUE
       /\ ret.written = ValidWrites(Blocks(ArchiveRead),
                                    Len(Blocks(ArchiveRead)))

\* A block that fails verification was followed by a valid block, and
\* unpack without force recorded the one 'Failed' and wrote the other.
C4_Witness ==
    /\ UnpackedAll /\ ~call.force
    /\ Len(Blocks(ArchiveRead)) = 2
    /\ VerificationFails(Blocks(ArchiveRead)[1])
    /\ Valid(Blocks(ArchiveRead)[2])
    /\ Len(ret.results) = 2
    /\ ret.results[1].status = "Failed"
    /\ ret.results[2].status = "Unpacked"
    /\ Len(ret.written) = 1

\* C5: check returns one record per block, in block order, each with status
\* 'Checked' whatever the outcome; for the three algorithms crc_passed is
\* true exactly when the stored checksum is the checksum of the block's
\* basis bytes; a failing block does not stop the blocks after it from being
\* checked.
C5_CheckOneRecordPerBlock ==
    Checked
    => /\ ret.err = "none"
       /\ Len(ret.results) = Len(Blocks(ArchiveRead))
       /\ \A i \in 1..Len(Blocks(ArchiveRead)) :
              /\ ret.results[i].status = "Checked"
              /\ ret.results[i].crc32 = Blocks(ArchiveRead)[i].crc
              /\ ret.results[i].size = U32(Len(Blocks(ArchiveRead)[i].payload))
              /\ KnownAlgorithm(Blocks(ArchiveRead)[i])
                 => (ret.results[i].crc_passed
                         <=> ChecksumMatches(Blocks(ArchiveRead)[i]))

\* A block that fails was followed by a block that passes, and check
\* reported both.
C5_Witness ==
    /\ Checked
    /\ Len(Blocks(ArchiveRead)) = 2
    /\ KnownAlgorithm(Blocks(ArchiveRead)[1])
    /\ ~ChecksumMatches(Blocks(ArchiveRead)[1])
    /\ KnownAlgorithm(Blocks(ArchiveRead)[2])
    /\ ChecksumMatches(Blocks(ArchiveRead)[2])
    /\ Len(ret.results) = 2
    /\ ret.results[1].crc_passed = FALSE
    /\ ret.results[2].crc_passed = TRUE

\* C6: every block written by pack or inject verifies: for any payload and
\* algorithm 0, 1 or 2, check of a freshly packed archive returns one
\* record per packed file, each with crc_passed = true.
C6_PackedBlocksVerify ==
    (call.op = "check" /\ PackedOnly)
    => /\ ret.err = "none"
       /\ Len(ret.results) = Len(InputsOf(origin))
       /\ \A i \in 1..Len(ret.results) : ret.results[i].crc_passed = TRUE

\* The blocks of the archive that bear name n, as positions.
Named(blocks, n) == {i \in 1..Len(blocks) : blocks[i].name = n}

RECURSIVE Without(_, _)
\* The blocks that do not bear name n, in their order.
Without(blocks, n) ==
    IF blocks = <<>> THEN <<>>
    ELSE IF Head(blocks).name = n THEN Without(Tail(blocks), n)
    ELSE <<Head(blocks)>> \o Without(Tail(blocks), n)

\* C7: detract of a present name: on a well-formed archive in which exactly
\* one block is named n, detract_files(archive, [n]) returns n as removed
\* and not as not-removed, and the archive is then the 28-byte header
\* followed by all other blocks, byte for byte and in order: shorter by
\* 62 + the payload length of the removed block.
C7_DetractPresentName ==
    (DetractedOne
     /\ Cardinality(Named(Blocks(ArchiveRead), call.names[1])) = 1)
    => /\ ret.err = "none"
       /\ ret.removed_files = call.names
       /\ ret.not_removed_files = <<>>
       /\ fs[ARCHIVE] = Slice(ArchiveRead, 0, 28)
                        \o BytesOf(Without(Blocks(ArchiveRead), call.names[1]))
       /\ \A i \in Named(Blocks(ArchiveRead), call.names[1]) :
              Len(fs[ARCHIVE]) = Len(ArchiveRead)
                                 - (62 + Len(Blocks(ArchiveRead)[i].payload))

\* The one block named n stood before another block, and detract removed it
\* and kept the other.
C7_Witness ==
    /\ DetractedOne
    /\ Len(Blocks(ArchiveRead)) = 2
    /\ Named(Blocks(ArchiveRead), call.names[1]) = {1}
    /\ ret.removed_files = call.names
    /\ Len(Blocks(fs[ARCHIVE])) = 1
    /\ Blocks(fs[ARCHIVE])[1] = Blocks(ArchiveRead)[2]

\* C8: detract of an absent name: when no block is named n,
\* detract_files(archive, [n]) raises nothing, returns n as not-removed and
\* not as removed, leaves the archive byte for byte as it was and leaves no
\* temporary file behind.
C8_DetractAbsentName ==
    (DetractedOne /\ Named(Blocks(ArchiveRead), call.names[1]) = {})
    => /\ ret.err = "none"
       /\ ret.removed_files = <<>>
       /\ ret.not_removed_files = call.names
       /\ fs = pre

\* Detract of an absent name ran on an archive that holds a block.
C8_Witness ==
    /\ DetractedOne
    /\ Blocks(ArchiveRead) # <<>>
    /\ Named(Blocks(ArchiveRead), call.names[1]) = {}
    /\ ret.not_removed_files = call.names

\* The first valid block whose base name names a directory, or one more
\* than the number of blocks if there is none.
FirstDirectoryWrite(blocks) ==
    IF \E i \in 1..Len(blocks) :
           Valid(blocks[i]) /\ BaseName(blocks[i].name) \in {<<>>, <<46>>, <<46, 46>>}
    THEN CHOOSE i \in 1..Len(blocks) :
           /\ Valid(blocks[i])
           /\ BaseName(blocks[i].name) \in {<<>>, <<46>>, <<46, 46>>}
           /\ \A j \in 1..(i - 1) :
                  ~(/\ Valid(blocks[j])
                    /\ BaseName(blocks[j].name) \in {<<>>, <<46>>, <<46, 46>>})
    ELSE Len(blocks) + 1

\* C9 as written: for every stored name, unpack writes the file directly
\* under the destination under the base name of the stored name and reports
\* that base name in the record of the block.
C9_EveryNameWritten ==
    UnpackedAll
    => \A i \in 1..Len(Blocks(ArchiveRead)) :
           Valid(Blocks(ArchiveRead)[i])
           => /\ ret.err = "none"
              /\ i <= Len(ret.results)
              /\ ret.results[i].filename = BaseName(Blocks(ArchiveRead)[i].name)
              /\ \E k \in 1..Len(ret.written) :
                     ret.written[k] =
                         [name |-> BaseName(Blocks(ArchiveRead)[i].name),
                          data |-> DecodedBytes(Blocks(ArchiveRead)[i])]

\* C9, amended: output paths never leave the destination.  Every record
\* reports the base name of the stored name, with no separator left, and
\* every file written is written under the base name, which names a file
\* directly under the destination.  A valid block whose base name is empty,
\* "." or ".." is not written: the open fails with an OS error, which ends
\* the operation without records, the files of the blocks before it written.
C9_OutputsStayUnderDestination ==
    UnpackedAll
    => /\ \A i \in 1..Len(ret.results) :
              /\ ret.results[i].filename = BaseName(Blocks(ArchiveRead)[i].name)
              /\ ~HasSeparator(ret.results[i].filename)
       /\ \A k \in 1..Len(ret.written) :
              /\ ~HasSeparator(ret.written[k].name)
              /\ ret.written[k].name \notin {<<>>, <<46>>, <<46, 46>>}
       /\ ret.written = ValidWrites(Blocks(ArchiveRead),
                                    FirstDirectoryWrite(Blocks(ArchiveRead)) - 1)
       /\ IF FirstDirectoryWrite(Blocks(ArchiveRead)) > Len(Blocks(ArchiveRead))
          THEN ret.err = "none" /\ Len(ret.results) = Len(Blocks(ArchiveRead))
          ELSE ret.err = "OSError" /\ ret.results = <<>>

\* A block stored under "../x" was unpacked: the file was written as "x"
\* and reported as "x".
C9_Witness ==
    /\ UnpackedAll
    /\ Len(Blocks(ArchiveRead)) >= 1
    /\ Blocks(ArchiveRead)[1].name = NameUpX
    /\ Len(ret.results) >= 1
    /\ ret.results[1].filename = <<120>>
    /\ Len(ret.written) >= 1
    /\ ret.written[1].name = <<120>>

\* C10: a file whose first 4 bytes are not the format magic is fatal for
\* unpack and check: they fail with 'Invalid RCH file format', return no
\* record and write no file.
C10_BadHeaderMagicIsFatal ==
    (/\ call.op \in {"unpack", "check"}
     /\ ARCHIVE \in DOMAIN pre
     /\ Slice(ArchiveRead, 0, 4) # RCH_MAGIC)
    => /\ ret.err = InvalidFormat
       /\ ret.results = <<>>
       /\ ret.written = <<>>

\* unpack was called on a file that holds a sound block behind a header
\* with another magic, and failed.
C10_Witness ==
    /\ call.op = "unpack"
    /\ ARCHIVE \in DOMAIN pre
    /\ Slice(ArchiveRead, 0, 4) = BadMagic
    /\ Blocks(ArchiveRead) # <<>>
    /\ Valid(Blocks(ArchiveRead)[1])
    /\ ret.err = InvalidFormat

\* The last call was inject into an archive that pack and inject wrote,
\* each with one of the three algorithms.
InjectedExisting ==
    /\ call.op = "inject"
    /\ call.algorithm \in {ENCODING_XOR255_LZW, ENCODING_XOR255, ENCODING_BZIP2}
    /\ ARCHIVE \in DOMAIN pre
    /\ PackedOnly

\* The records of a scan of archive f (check_rch lists every block it meets).
Listing(f) == check_rch(f).results

\* C11: inject is pack in append mode: after inject_files on an existing
\* archive the previous bytes are an unchanged prefix of the file, no second
\* header is written, and one new block per entry follows in input order: a
\* scan lists the old blocks followed by the new ones, under the base names
\* of the entries.
C11_InjectAppendsBlocks ==
    InjectedExisting
    => /\ ret.err = "none"
       /\ Slice(fs[ARCHIVE], 0, Len(ArchiveRead)) = ArchiveRead
       /\ Slice(fs[ARCHIVE], Len(ArchiveRead), Len(ArchiveRead) + 2)
              = BLOCK_MAGIC
       /\ Len(Listing(fs[ARCHIVE]))
              = Len(Listing(ArchiveRead)) + Len(call.inputs)
       /\ SubSeq(Listing(fs[ARCHIVE]), 1, Len(Listing(ArchiveRead)))
              = Listing(ArchiveRead)
       /\ \A i \in 1..Len(call.inputs) :
              Listing(fs[ARCHIVE])[Len(Listing(ArchiveRead)) + i].filename
                  = BaseName(call.inputs[i].path)

\* C12: unknown algorithm ids are rejected on encode: pack (and inject) of
\* at least one entry with an id outside {0, 1, 2} fails with the codec error
\* 'Unknown encoding algorithm', returns no record and writes no block: the
\* file holds the header pack wrote, or what it held before the inject.
C12_UnknownAlgorithmRejected ==
    (/\ call.op \in {"pack", "inject"}
     /\ call.algorithm \notin {ENCODING_XOR255_LZW, ENCODING_XOR255,
                                ENCODING_BZIP2}
     /\ call.inputs # <<>>)
    => /\ ret.err = UnknownAlgorithm
       /\ ret.results = <<>>
       /\ fs[ARCHIVE] = IF call.op = "pack" THEN write_rch_header
                         ELSE Content(pre, ARCHIVE)

\* pack of two entries with id 3 failed and left the header alone in the
\* file.
C12_Witness ==
    /\ call.op = "pack"
    /\ call.algorithm = 3
    /\ Len(call.inputs) = 2
    /\ ret.err = UnknownAlgorithm
    /\ fs[ARCHIVE] = write_rch_header

\* C13: the invert transform is a self-inverse byte-wise complement: for
\* every byte sequence x, xor255(xor255(x)) = x, xor255(x) is as long as x
\* and each of its bytes is 255 minus the byte of x, and xor255(x) differs
\* from x when x is not empty.
C13_Xor255SelfInverse ==
    call.op = "xor255"
    => /\ ret.decoded = Ok(call.data)
       /\ Len(ret.encoded) = Len(call.data)
       /\ \A i \in 1..Len(call.data) : ret.encoded[i] = 255 - call.data[i]
       /\ call.data # <<>> => ret.encoded # call.data

\* xor255 ran twice on a sequence that holds the bytes 0 and 255.
C13_Witness ==
    /\ call.op = "xor255"
    /\ call.data = <<0, 65, 255>>
    /\ ret.encoded = <<255, 190, 0>>
    /\ ret.decoded = Ok(call.data)

\* The extension of a name, as os.path.splitext splits it off.
Extension(name) == splitext(name)[2]

EndsWith(s, t) ==
    Len(t) <= Len(s) /\ SubSeq(s, Len(s) - Len(t) + 1, Len(s)) = t

\* C14: long-name truncation: for every name of more than 255 characters
\* the sanitized name has at most 255 characters and ends with the
\* extension of the original name.
C14_LongNameTruncated ==
    (call.op = "sanitize" /\ Len(call.data) > 255)
    => /\ Len(ret.value) <= 255
       /\ EndsWith(ret.value, Extension(call.data))

\* The file starts with a whole header that bears the format magic.
StartsWithHeader(f) == Len(f) >= 28 /\ Slice(f, 0, 4) = RCH_MAGIC

\* The offset behind the whole blocks of f.
EndOfBlocks(f) == 28 + Len(BytesOf(Blocks(f)))

\* C15: a failed block-header read inside the scan loop of unpack, check or
\* detract ends the loop, not the operation: on any file that starts with a
\* valid header, whatever follows the blocks (a bad block magic, the end of
\* the file, a block header cut short after its magic), the operation
\* raises nothing and returns the records collected so far, one per whole
\* block at least.
C15_HeaderFailureEndsScan ==
    (/\ call.op \in {"unpack", "check", "detract"}
     /\ call.filenames = {}
     /\ ARCHIVE \in DOMAIN pre
     /\ StartsWithHeader(ArchiveRead)
     /\ FileNamesOnly(Blocks(ArchiveRead)))
    => /\ ret.err = "none"
       /\ call.op \in {"unpack", "check"}
          => Len(ret.results) >= Len(Blocks(ArchiveRead))

\* Behind the whole blocks of f stands a whole block header, laid out as the
\* writer lays it out (magic, name field ending in NUL), that announces more
\* payload bytes than the file has left.
ShortPayload(f) ==
    /\ EndOfBlocks(f) + 62 <= Len(f)
    /\ Slice(f, EndOfBlocks(f), EndOfBlocks(f) + 2) = BLOCK_MAGIC
    /\ f[EndOfBlocks(f) + 42] = 0
    /\ ~HasBlockAt(f, EndOfBlocks(f))

\* C16: a truncated payload is an I/O error: when fewer bytes than the
\* block header announces are left in the archive, the payload read fails,
\* unpack and check abort with that error and return no record.
C16_ShortPayloadIsIOError ==
    (/\ call.op \in {"unpack", "check"}
     /\ call.filenames = {}
     /\ ARCHIVE \in DOMAIN pre
     /\ StartsWithHeader(ArchiveRead)
     /\ ShortPayload(ArchiveRead))
    => /\ ret.err \in {"OSError", "EOFError"}
       /\ ret.results = <<>>

\* The payload of block b cannot be decoded: its algorithm id is not one of
\* the three, or the codec of its id rejects the payload.
Undecodable(b) == ~KnownAlgorithm(b) \/ ~Decodable(b)

\* C17: a decode failure is fatal only for its own block: unpack, with or
\* without force, records a block whose payload cannot be decoded (unknown
\* algorithm id, invalid dictionary code, empty dictionary-codec input,
\* undecodable bzip2 data) as 'Failed' with crc_passed = false, writes
\* nothing for it and goes on with the next block: every block has its
\* record and every file written holds the decoded bytes of a block that
\* decodes.
C17_DecodeFailureIsolated ==
    (UnpackedAll /\ FileNamesOnly(Blocks(ArchiveRead)))
    => /\ ret.err = "none"
       /\ Len(ret.results) = Len(Blocks(ArchiveRead))
       /\ \A i \in 1..Len(Blocks(ArchiveRead)) :
              Undecodable(Blocks(ArchiveRead)[i])
              => /\ ret.results[i].status = "Failed"
                 /\ ret.results[i].crc_passed = FALSE
       /\ Len(ret.written)
              <= Cardinality({i \in 1..Len(Blocks(ArchiveRead)) :
                                 ~Undecodable(Blocks(ArchiveRead)[i])})
       /\ \A k \in 1..Len(ret.written) :
              \E i \in 1..Len(Blocks(ArchiveRead)) :
                  /\ ~Undecodable(Blocks(ArchiveRead)[i])
                  /\ ret.written[k] =
                         [name |-> BaseName(Blocks(ArchiveRead)[i].name),
                          data |-> DecodedBytes(Blocks(ArchiveRead)[i])]

\* A block with an unknown algorithm id stood before a valid block, and
\* unpack with force recorded the one 'Failed' and wrote the other alone.
C17_Witness ==
    /\ UnpackedAll /\ call.force
    /\ Len(Blocks(ArchiveRead)) = 2
    /\ ~KnownAlgorithm(Blocks(ArchiveRead)[1])
    /\ Valid(Blocks(ArchiveRead)[2])
    /\ Len(ret.results) = 2
    /\ ret.results[1].status = "Failed"
    /\ ret.results[1].crc_passed = FALSE
    /\ ret.results[2].status = "Unpacked"
    /\ Len(ret.written) = 1
    /\ ret.written[1].name = BaseName(Blocks(ArchiveRead)[2].name)

\* The code about to be assigned when a new decoder resolves the code at
\* position i of a stream: each code after the first added one entry.
NextCodeAt(i) == 256 + (i - 2)

\* The codes before position i of the stream can all be resolved.
ResolvableBefore(codes, i) ==
    /\ codes[1] < 256
    /\ \A j \in 2..(i - 1) : codes[j] <= NextCodeAt(j)

\* The bytes a new decoder returns for the first k codes.
DecodedPrefix(codes, k) == lzw_decode(to_bytes(SubSeq(codes, 1, k))).data

\* The string the code at position k of the stream stood for.
StringAt(codes, k) ==
    SubSeq(DecodedPrefix(codes, k),
           Len(DecodedPrefix(codes, k - 1)) + 1, Len(DecodedPrefix(codes, k)))

\* C19: decode of a stream with no codes fails with ValueError (the codec
\* error); a code after the first that is neither in the table nor the
\* code about to be assigned fails with ValueError; a code equal to the
\* code about to be assigned stands for the previous string followed by the
\* first byte of the previous string.
C19_DecodeRejectsBadStreams ==
    call.op = "lzw_decode"
    => /\ call.data = <<>> => ret.decoded = Raise("ValueError")
       /\ \A i \in 2..Len(call.data) :
              /\ (ResolvableBefore(call.data, i)
                     /\ call.data[i] > NextCodeAt(i))
                 => ret.decoded = Raise("ValueError")
              /\ (ResolvableBefore(call.data, i)
                     /\ call.data[i] = NextCodeAt(i))
                 => /\ lzw_decode(to_bytes(SubSeq(call.data, 1, i))).ok
                    /\ StringAt(call.data, i) =
                           Append(StringAt(call.data, i - 1),
                                  StringAt(call.data, i - 1)[1])

\* A stream whose third code is the code about to be assigned was decoded
\* to the second byte three times after the first.
C19_Witness ==
    /\ call.op = "lzw_decode"
    /\ call.data = <<65, 66, 257>>
    /\ ret.decoded = Ok(<<65, 66, 66, 66>>)

\* C20: the state of the dictionary codec is per call: every encode starts
\* from the 256 seeds with next code 256, so two calls of encode with the
\* same input on one LZWCompressor object return the same bytes.
C20_CodecStatePerCall ==
    call.op = "lzw_twice"
    => /\ ret.encoded = lzw_encode(call.data)
       /\ ret.value = ret.encoded

\* The counts of the codec object are within the ceiling and every code
\* emitted fits 2 bytes.
WithinCeiling ==
    /\ 256 <= codec.next_code /\ codec.next_code <= 65536
    /\ codec.table = codec.next_code
    /\ codec.emitted # NoCode
       => /\ codec.emitted \in 0..65535
          /\ Len(to_bytes(<<codec.emitted>>)) = 2
          /\ \A k \in 1..2 : to_bytes(<<codec.emitted>>)[k] \in 0..255
          /\ from_bytes(to_bytes(<<codec.emitted>>)) = <<codec.emitted>>

\* A step of a call never resets the table, and adds nothing at the ceiling.
GrowthOnly ==
    /\ codec'.next_code >= codec.next_code
    /\ codec'.table >= codec.table
    /\ codec.next_code = 65536 => codec'.table = codec.table

\* C18: in every state of an encode or a decode 256 <= next_code <= 65536
\* and the table holds exactly next_code entries; once next_code is 65536
\* no entry is added, the table is never reset in mid-stream, and every
\* code the encoder emits is in 0..65535 and fits the 2-byte big-endian
\* serialization.
C18_DictionaryCeiling == []WithinCeiling /\ [][GrowthOnly]_vars

\* The encoder, its table full, emitted the last code of the table and
\* went on.
C18_Witness ==
    /\ codec.op = "encode"
    /\ codec.next_code = 65536
    /\ codec.table = 65536
    /\ codec.emitted = 65535

RECURSIVE FramedLen(_)
\* The bytes fixed-width framing takes for the blocks of the records: 2 + 40
\* + 20 bytes and the payload each.
FramedLen(results) ==
    IF results = <<>> THEN 0
    ELSE 62 + results[1].size[1] + 256 * results[1].size[2]
         + FramedLen(Tail(results))

\* C23: block framing is fixed-width: write_block_to_file emits exactly
\* 2 + 40 + 20 + len(payload) bytes for every name and payload, the name
\* taking exactly 40 bytes, so that after pack the archive has the header
\* and that many bytes per block, and reading the block headers one after
\* the other gives the payload length, checksum and algorithm id written
\* for each input.
C23_BlockFramingFixedWidth ==
    (call.op = "pack" /\ ret.err = "none")
    => /\ Len(fs[ARCHIVE]) = 28 + FramedLen(ret.results)
       /\ Len(Blocks(fs[ARCHIVE])) = Len(call.inputs)
       /\ \A i \in 1..Len(Blocks(fs[ARCHIVE])) :
              /\ U32(Len(Blocks(fs[ARCHIVE])[i].payload))
                    = ret.results[i].size
              /\ Blocks(fs[ARCHIVE])[i].crc = ret.results[i].crc32
              /\ Blocks(fs[ARCHIVE])[i].algo = U32(call.algorithm)

\* C24: detract with an output path works on a copy: for any output path
\* and any names, detract_files copies the whole archive to the output path
\* and removes blocks only there; after it returns, the file at the path of
\* the archive holds the same bytes as before the call.
C24_DetractOutputLeavesArchive ==
    (call.op = "detract" /\ call.output # "" /\ ret.err = "none"
       /\ ARCHIVE \in DOMAIN pre)
    => /\ ARCHIVE \in DOMAIN fs
       /\ fs[ARCHIVE] = pre[ARCHIVE]

\* C25: a header magic failure is fatal for detract too: on a file whose
\* first 4 bytes are not the format magic detract fails with 'Invalid RCH
\* file format', whatever names are requested, and no file is rewritten or
\* replaced.
C25_DetractBadMagicIsFatal ==
    (/\ call.op = "detract"
     /\ ARCHIVE \in DOMAIN pre
     /\ Slice(ArchiveRead, 0, 4) # RCH_MAGIC)
    => /\ ret.err = InvalidFormat
       /\ fs = pre

\* What unpack (force = false, no name filter) returns for the archive the
\* last call read.
UnpackOfRead == unpack_rch(ArchiveRead, FALSE, {})

\* C26: check and unpack agree block by block: check_rch reports a block
\* with crc_passed = true exactly when unpack_rch with force = false and no
\* name filter records that block with status 'Unpacked'.
C26_CheckAgreesWithUnpack ==
    (Checked /\ ret.err = "none")
    => /\ UnpackOfRead.err = "none"
       /\ Len(UnpackOfRead.results) = Len(ret.results)
       /\ \A i \in 1..Len(ret.results) :
              ret.results[i].crc_passed
                  <=> UnpackOfRead.results[i].status = "Unpacked"

\* How many times n stands in the list.
Count(n, list) == Cardinality({i \in 1..Len(list) : list[i] = n})

\* The names of the lists.
Range(list) == {list[i] : i \in 1..Len(list)}

RECURSIVE WithoutAll(_, _)
\* The blocks that bear none of the names, in their order.
WithoutAll(blocks, names) ==
    IF names = <<>> THEN blocks
    ELSE WithoutAll(Without(blocks, Head(names)), Tail(names))

\* The file detract works on: the archive, or the copy at the output path.
DetractTarget == IF call.output = "" THEN ARCHIVE ELSE call.output

\* The last call was detract of a well-formed archive, in place or on a
\* copy at another path.
DetractedWellFormed ==
    /\ call.op = "detract" /\ call.output # ARCHIVE
    /\ ARCHIVE \in DOMAIN pre /\ WellFormed(ArchiveRead)

C29_DecodeFailsOnlyWithValueError ==
    call.op = "lzw_decode"
    => \/ ret.decoded.ok
       \/ ret.decoded.err = "ValueError"

\* The algorithm id each input of the calls was encoded with, in the order
\* the inputs were packed.
RECURSIVE AlgorithmsOf(_)
AlgorithmsOf(calls) ==
    IF calls = <<>> THEN <<>>
    ELSE [i \in 1..Len(Head(calls).inputs) |-> Head(calls).algorithm]
         \o AlgorithmsOf(Tail(calls))

\* C30: unpack decodes each block by the algorithm id stored in the block,
\* never by the encoding_algorithm of the handler that unpacks: an archive
\* whose blocks were packed and injected with different ids unpacks (by a
\* handler constructed with the default id) every block to its original
\* payload, and each record names the encoding of its block.
C30_DecodeByStoredId ==
    (/\ call.op = "unpack" /\ ~call.force /\ call.filenames = {}
     /\ PackedOnly /\ Len(origin) = 2
     /\ origin[1].algorithm # origin[2].algorithm)
    => /\ ret.err = "none"
       /\ Len(ret.results) = Len(InputsOf(origin))
       /\ Len(ret.written) = Len(InputsOf(origin))
       /\ \A i \in 1..Len(InputsOf(origin)) :
              /\ ret.results[i].status = "Unpacked"
              /\ ret.results[i].encoding
                    = get_encoding_name(AlgorithmsOf(origin)[i])
              /\ ret.written[i].data = InputsOf(origin)[i].data

\* What detract_file leaves of a well-formed archive f when a block bears
\* the name n: the header and the other blocks.
Rewritten(f, n) == Slice(f, 0, 28) \o BytesOf(Without(Blocks(f), n))

\* detract_file has not reached its os.rename or os.remove.
BeforeRename ==
    proc.dpc \in {"start", "header", "scan", "closed", "killed", "failed"}

\* C22: an in-place detract of one name is all-or-nothing on the archive
\* file.  In every state of detract_file before the final rename the bytes
\* of the archive are the original ones; after the rename they are the fully
\* rewritten content (and the temp file has gone); a call that found no
\* block of the name leaves the original and no temp file; a call stopped at
\* an earlier step leaves the original archive, and besides it only the
\* '.tmp' file.
C22_DetractAllOrNothing ==
    /\ BeforeRename =>
          /\ ARCHIVE \in DOMAIN fs
          /\ fs[ARCHIVE] = pre[ARCHIVE]
          /\ DOMAIN fs \subseteq {ARCHIVE, TEMP}
    /\ proc.dpc = "done" =>
          /\ fs = detract_file(pre, ARCHIVE, proc.target).files
          /\ DOMAIN fs = {ARCHIVE}
          /\ ~proc.file_removed => fs[ARCHIVE] = pre[ARCHIVE]
          /\ proc.file_removed /\ WellFormed(pre[ARCHIVE]) =>
                fs[ARCHIVE] = Rewritten(pre[ARCHIVE], proc.target)

\* C22 witness: detract_file was stopped in its loop after it had left out
\* a block of the name and copied another one; the archive is the original
\* and the temp file holds the header and the block copied.
C22_Witness ==
    /\ proc.dpc = "killed"
    /\ proc.file_removed
    /\ proc.pos = Len(fs[ARCHIVE])
    /\ Len(Blocks(fs[ARCHIVE])) = 2
    /\ TEMP \in DOMAIN fs
    /\ Len(fs[TEMP]) > 28
    /\ fs[TEMP] # fs[ARCHIVE]
    /\ fs[ARCHIVE] = pre[ARCHIVE]

\* The place of step e in the order of the steps taken, 0 if it was not
\* taken.
StepOf(e) ==
    IF \E i \in 1..Len(proc.log) : proc.log[i] = e
    THEN CHOOSE i \in 1..Len(proc.log) : proc.log[i] = e
    ELSE 0

\* inject opened the archive before detract renamed its temp file over it,
\* and closed it after detract's loop had met the end of the archive.
ClosedTooLate ==
    /\ StepOf("rename") > 0
    /\ StepOf("open") < StepOf("rename")
    /\ StepOf("eof") < StepOf("flush")

BothDone == proc.dpc = "done" /\ proc.ipc = "done"

\* C21: inject and detract race on the same archive path.  With an inject
\* and a detract of a different name run concurrently, once both calls have
\* returned the archive is what detract alone would have left, followed by
\* the block inject wrote, except when inject opened the archive before
\* detract's rename and closed it after detract's loop had ended: then the
\* archive is detract's temp copy alone and the block inject appended is in
\* no file, though inject returned its results.
C21_InjectLostInRace ==
    BothDone =>
        /\ proc.buf # <<>>
        /\ fs[ARCHIVE]
              = detract_file(pre, ARCHIVE, proc.target).files[ARCHIVE]
                   \o (IF ClosedTooLate THEN <<>> ELSE proc.buf)
        /\ DOMAIN fs = {ARCHIVE}

\* C21 witness: both calls have returned, inject wrote a block named 'b',
\* detract left out the block named 'a' and renamed its temp copy over the
\* archive, and the archive holds no block named 'b'.
C21_Witness ==
    /\ BothDone
    /\ proc.file_removed
    /\ Len(BlocksFrom(proc.buf, 0)) = 1
    /\ BlocksFrom(proc.buf, 0)[1].name = NameB
    /\ Named(Blocks(pre[ARCHIVE]), NameA) # {}
    /\ Named(Blocks(fs[ARCHIVE]), NameB) = {}
    /\ fs[ARCHIVE] = Rewritten(pre[ARCHIVE], NameA)

====
